---------------------------- MODULE Spec2Model ----------------------------
(***************************************************************************)
(* Autonomous task pipeline of agent-deployment:                           *)
(*   - the backoff retrier            (src/src/utils/retry.py)             *)
(*   - the LLM access layer           (src/src/services/llm.py)            *)
(*   - the phase pipeline             (src/src/agent/orchestrator.py,      *)
(*                                     src/src/api/routes.py)              *)
(*   - the evaluation engine          (src/src/agent/evaluator.py)         *)
(* Each subsystem has its own specification (SpecRetry, SpecLLM,           *)
(* SpecPipeline, SpecEval and SpecCheck); the variables of the other       *)
(* subsystems stay at their initial values.                                *)
(***************************************************************************)
EXTENDS Integers, Sequences, FiniteSets, TLC

(***************************************************************************)
(* Bounds of the model.                                                    *)
(***************************************************************************)
\* largest max_attempts passed to retry_with_backoff
MaxAttempts == 3
\* largest initial_delay / max_delay, in whole delay units
MaxDelayUnits == 3
\* largest backoff_factor
MaxFactor == 2
\* largest number of configured LLM providers
MaxProviders == 3
\* number of background tasks that call the shared LLM service concurrently
NumTasks == 2
\* largest round number of a task request (schemas.py:33-38: round >= 1)
MaxRound == 3
\* largest number of checks passed to evaluate_page
MaxChecks == 2

Min(a, b) == IF a <= b THEN a ELSE b

RECURSIVE Pow(_, _)
Pow(b, e) == IF e = 0 THEN 1 ELSE b * Pow(b, e - 1)

VARIABLES
    \* ---- retry_with_backoff: parameters
    max_attempts,      \* retry.py:18
    initial_delay,     \* retry.py:19
    max_delay,         \* retry.py:20
    backoff_factor,    \* retry.py:21
    \* ---- retry_with_backoff: the operation's behaviour (environment)
    first_success,     \* index of the first invocation of func that succeeds
    \* ---- retry_with_backoff: locals and position
    retry_pc,          \* "call" (about to await func), "sleep" (in asyncio.sleep), "done"
    attempt,           \* retry.py:45
    delay,             \* retry.py:42
    last_exception,    \* retry.py:43
    \* ---- retry_with_backoff: observations
    invocations,       \* number of times func was invoked
    sleeps,            \* the durations passed to asyncio.sleep, in order
    retry_outcome,     \* <<"none">>, <<"return", v>> or <<"raise", e>>
    \* ---- LLMService instance (one per process, main.py:59)
    num_providers,           \* len(self.providers), llm.py:23
    current_provider_index,  \* llm.py:24
    \* ---- generate_response: locals and position of each caller
    call_pc,           \* "idle", "awaiting" (in await provider.generate_response), "done"
    loop_i,            \* llm.py:80
    provider,          \* llm.py:81
    last_error,        \* llm.py:77
    llm_outcome,       \* <<"none">>, <<"return", text>> or <<"raise", e>>
    \* ---- generate_response: observations of each call
    interleaved,       \* another caller took a generate_response step during the call
    observe_tried,     \* whether this run records tried (chosen at the start)
    tried,             \* the set of providers the call awaited, interleaved or not
    end_index,         \* the cursor when the call ended
    \* (the next three are recorded while the call is not interleaved)
    start_index,       \* the cursor when the call started
    attempted,         \* the providers the call awaited, in order
    failures,          \* the providers that raised in the call, in order
    \* ---- one background task run: its input
    task_round,        \* task_data['round'], routes.py:71
    prior_repo_url,    \* a round-1 record with a repo_url exists, routes.py:145
    evaluation_url,    \* task_data['evaluation_url'] is non-empty, orchestrator.py:282
    \* ---- one background task run: position and results
    pipe_pc,           \* the await the run is at
    run_path,          \* "none", "process_task" or "process_round2_task"
    pending_exc,       \* the exception propagating, or None
    run_outcome,       \* of the orchestrator call: <<"none">>, <<"return", r>>, <<"raise", e>>
    task_status,       \* Task.status, models/database.py:94
    task_error,        \* Task.error_message, models/database.py:101
    workspace_exists,  \* the workspace directory is on disk
    \* ---- one background task run: observations
    phase_log,         \* the phases process_task started, in order
    phases_done,       \* the phases that returned, in order
    ops_log,           \* the collaborator operations started, in order
    workspaces,        \* the run's workspace path is a key of tools.workspaces, tools.py:26
    analysis,          \* orchestrator.py:55, what Think returned, or "none"
    plan,              \* orchestrator.py:59, what Plan returned, or "none"
    existing_files,    \* orchestrator.py:325, what update_application is given, or "none"
    callback_result,   \* "none", "not_sent", "delivered" or "failed"
    deployment_recorded, \* update_task_deployment has committed, routes.py:161
    status_log,        \* the values written to Task.status by the run, in order
    cleanup_failed,    \* shutil.rmtree raised in cleanup_workspace, tools.py:58
    repo_head,         \* the number of commits the run has made to its repository
    deployment_result, \* orchestrator.py:245, 368: repo_url, commit_sha, pages_url
    callback_log,      \* the outcomes of the POSTs of the callback, in order
    callback_payload,  \* <<"none">> or <<"payload", p>>, orchestrator.py:287-295
    evaluator_outcome, \* of the evaluator scope in Review: <<"none">>, <<"return", r>>, <<"raise", e>>
    \* ---- PlaywrightEvaluator instance (one per scope, orchestrator.py:435)
    playwright,        \* self.playwright, evaluator.py:20: "none", "running", "stopped"
    browser,           \* self.browser, evaluator.py:21: "none", "open", "closed"
    \* ---- evaluate_page: its input and the page it is pointed at
    checks,            \* evaluator.py:40, each check is the set of markers it contains
    page_facts,        \* what the served page holds (environment)
    \* ---- the scope and evaluate_page: locals and position
    eval_pc,           \* the await the scope is at
    page,              \* evaluator.py:66: "none", "open", "closed"
    check_i,           \* index of the next check of the loop at evaluator.py:85
    results,           \* evaluator.py:55-63
    scope_exit,        \* how the scope body ended: "none", "return", "cancelled"
    scope_outcome,     \* of the async with statement: <<"none">>, <<"return">>, <<"raise", e>>
    \* ---- evaluate_page: observations
    nav_result,        \* what page.goto gave: <<"none">>, <<"raise">>, <<"response", status>>
    loaded,            \* the waits of evaluator.py:81-82 returned
    exec_log,          \* <<index, answer of the page>> of the checks handed to _run_check, in order
    \* ---- POST /request and its background task
    db_rows,           \* the rows of table "tasks" (models/database.py:72-117)
    http_response      \* what the last POST /request answered (routes.py:93-102)

retryVars == <<max_attempts, initial_delay, max_delay, backoff_factor, first_success,
               retry_pc, attempt, delay, last_exception, invocations, sleeps,
               retry_outcome>>

llmVars == <<num_providers, current_provider_index, call_pc, loop_i, provider,
             last_error, llm_outcome, start_index, end_index, attempted, failures,
             interleaved, observe_tried, tried>>

pipeVars == <<task_round, prior_repo_url, evaluation_url, pipe_pc, run_path,
              pending_exc, run_outcome, task_status, task_error, workspace_exists,
              phase_log, phases_done, ops_log, workspaces, analysis, plan,
              existing_files, callback_result, deployment_recorded, status_log,
              evaluator_outcome, cleanup_failed, repo_head, deployment_result,
              callback_log, callback_payload>>

evalVars == <<playwright, browser, checks, page_facts, eval_pc, page, check_i,
              results, scope_exit, scope_outcome, nav_result, loaded, exec_log>>

reqVars == <<db_rows, http_response>>

vars == <<retryVars, llmVars, pipeVars, evalVars, reqVars>>

\* what the actions of one subsystem leave alone
notRetryVars == <<llmVars, pipeVars, evalVars, reqVars>>
notLLMVars == <<retryVars, pipeVars, evalVars, reqVars>>
notPipeVars == <<retryVars, llmVars, evalVars, reqVars>>
notEvalVars == <<retryVars, llmVars, pipeVars, reqVars>>
notReqVars == <<retryVars, llmVars, pipeVars, evalVars>>

(***************************************************************************)
(* Backoff retrier: retry_with_backoff (src/src/utils/retry.py:16-65).     *)
(* The value returned by the k-th invocation of func is <<"ok", k>>, the   *)
(* exception it raises is <<"err", k>>. None is <<"None">>.                *)
(***************************************************************************)
None == <<"None">>

\* retry.py:42-43 and the first iteration of the loop at line 45
RetryInit ==
    /\ max_attempts \in 0..MaxAttempts
    /\ initial_delay \in 1..MaxDelayUnits
    /\ max_delay \in 1..MaxDelayUnits
    /\ backoff_factor \in 1..MaxFactor
    /\ first_success \in 1..(MaxAttempts + 1)
    /\ retry_pc = "call"
    /\ attempt = 1
    /\ delay = initial_delay
    /\ last_exception = None
    /\ invocations = 0
    /\ sleeps = <<>>
    /\ retry_outcome = <<"none">>

\* the retrier is not running
RetryIdle ==
    /\ max_attempts = 0
    /\ initial_delay = 1
    /\ max_delay = 1
    /\ backoff_factor = 1
    /\ first_success = 1
    /\ retry_pc = "done"
    /\ attempt = 1
    /\ delay = 1
    /\ last_exception = None
    /\ invocations = 0
    /\ sleeps = <<>>
    /\ retry_outcome = <<"none">>

\* retry.py:45 -- the loop body runs for attempt in 1..max_attempts
InLoop == attempt <= max_attempts

\* retry.py:47 -- whether this invocation of func returns normally
FuncSucceeds == attempt = first_success

\* retry.py:55
IsLastAttempt(a, m) == a = m

\* retry.py:63
NextDelay(d, f, m) == Min(d * f, m)

\* retry.py:47-50 with the return skipped on the first attempt
RetryAttemptSucceeds_NoReturn ==
    /\ retry_pc = "call"
    /\ InLoop
    /\ FuncSucceeds
    /\ invocations' = invocations + 1
    /\ IF attempt > 1
       THEN /\ retry_outcome' = <<"return", <<"ok", attempt>>>>
            /\ retry_pc' = "done"
            /\ UNCHANGED attempt
       ELSE /\ attempt' = attempt + 1
            /\ UNCHANGED <<retry_outcome, retry_pc>>
    /\ UNCHANGED <<max_attempts, initial_delay, max_delay, backoff_factor,
                   first_success, delay, last_exception, sleeps>>
    /\ UNCHANGED notRetryVars

\* retry.py:46-50 -- func returns: the result is returned at once
RetryAttemptSucceeds ==
    /\ retry_pc = "call"
    /\ InLoop
    /\ FuncSucceeds
    /\ invocations' = invocations + 1
    /\ retry_outcome' = <<"return", <<"ok", attempt>>>>
    /\ retry_pc' = "done"
    /\ UNCHANGED <<max_attempts, initial_delay, max_delay, backoff_factor,
                   first_success, attempt, delay, last_exception, sleeps>>
    /\ UNCHANGED notRetryVars

\* retry.py:52-57 with the terminal failure swallowed
RetryAttemptFailsLast_Swallow ==
    /\ retry_pc = "call"
    /\ InLoop
    /\ ~FuncSucceeds
    /\ IsLastAttempt(attempt, max_attempts)
    /\ invocations' = invocations + 1
    /\ last_exception' = <<"err", attempt>>
    /\ retry_outcome' = <<"return", None>>
    /\ retry_pc' = "done"
    /\ UNCHANGED <<max_attempts, initial_delay, max_delay, backoff_factor,
                   first_success, attempt, delay, sleeps>>
    /\ UNCHANGED notRetryVars

\* retry.py:52-57 -- func raises on the last allowed attempt: re-raise
RetryAttemptFailsLast ==
    /\ retry_pc = "call"
    /\ InLoop
    /\ ~FuncSucceeds
    /\ IsLastAttempt(attempt, max_attempts)
    /\ invocations' = invocations + 1
    /\ last_exception' = <<"err", attempt>>
    /\ retry_outcome' = <<"raise", <<"err", attempt>>>>
    /\ retry_pc' = "done"
    /\ UNCHANGED <<max_attempts, initial_delay, max_delay, backoff_factor,
                   first_success, attempt, delay, sleeps>>
    /\ UNCHANGED notRetryVars

\* retry.py:52-60 -- func raises and attempts remain: asyncio.sleep(delay)
RetryAttemptFailsSleep ==
    /\ retry_pc = "call"
    /\ InLoop
    /\ ~FuncSucceeds
    /\ ~IsLastAttempt(attempt, max_attempts)
    /\ invocations' = invocations + 1
    /\ last_exception' = <<"err", attempt>>
    /\ sleeps' = Append(sleeps, delay)
    /\ retry_pc' = "sleep"
    /\ UNCHANGED <<max_attempts, initial_delay, max_delay, backoff_factor,
                   first_success, attempt, delay, retry_outcome>>
    /\ UNCHANGED notRetryVars

\* retry.py:60-63 and 45 -- the sleep returns, the delay grows, next iteration
RetrySleepReturns ==
    /\ retry_pc = "sleep"
    /\ delay' = NextDelay(delay, backoff_factor, max_delay)
    /\ attempt' = attempt + 1
    /\ retry_pc' = "call"
    /\ UNCHANGED <<max_attempts, initial_delay, max_delay, backoff_factor,
                   first_success, last_exception, invocations, sleeps,
                   retry_outcome>>
    /\ UNCHANGED notRetryVars

\* retry.py:65 -- the loop ended without returning or raising: raise last_exception
\* (raising None is a TypeError)
RetryLoopExhausted ==
    /\ retry_pc = "call"
    /\ ~InLoop
    /\ retry_outcome' = <<"raise", IF last_exception = None
                                    THEN <<"TypeError">>
                                    ELSE last_exception>>
    /\ retry_pc' = "done"
    /\ UNCHANGED <<max_attempts, initial_delay, max_delay, backoff_factor,
                   first_success, attempt, delay, last_exception, invocations,
                   sleeps>>
    /\ UNCHANGED notRetryVars


(***************************************************************************)
(* LLM access layer: LLMService (src/src/services/llm.py:19-108).          *)
(* Providers are named by their position 0..num_providers-1 in             *)
(* self.providers. The text provider p returns is <<"text", p>>, the       *)
(* exception it raises is <<"err", p>>. One LLMService is built at startup *)
(* (main.py:59) and handed to the one TaskOrchestrator (main.py:63-67)     *)
(* that every background task uses (routes.py:84-89), so all callers       *)
(* share current_provider_index. A caller runs without interruption        *)
(* between two awaits (single-threaded cooperative scheduling).            *)
(***************************************************************************)
Tasks == 1..NumTasks

\* llm.py:22-59 -- __init__: the configured providers, the cursor at 0
LLMStart ==
    /\ num_providers \in 0..MaxProviders
    /\ current_provider_index = 0
    /\ call_pc = [t \in Tasks |-> "idle"]
    /\ loop_i = [t \in Tasks |-> 0]
    /\ provider = [t \in Tasks |-> 0]
    /\ last_error = [t \in Tasks |-> None]
    /\ llm_outcome = [t \in Tasks |-> <<"none">>]
    /\ start_index = [t \in Tasks |-> 0]
    /\ end_index = [t \in Tasks |-> 0]
    /\ attempted = [t \in Tasks |-> <<>>]
    /\ failures = [t \in Tasks |-> <<>>]
    /\ interleaved = [t \in Tasks |-> FALSE]
    /\ tried = [t \in Tasks |-> {}]

\* the LLMService after construction, its calls observed without tried
LLMInit == LLMStart /\ observe_tried = FALSE

\* the LLMService after construction, tried recorded for every call
LLMInitObserved == LLMStart /\ observe_tried = TRUE

\* the LLM service is not in use
LLMIdle ==
    /\ num_providers = 0
    /\ current_provider_index = 0
    /\ call_pc = [t \in Tasks |-> "idle"]
    /\ loop_i = [t \in Tasks |-> 0]
    /\ provider = [t \in Tasks |-> 0]
    /\ last_error = [t \in Tasks |-> None]
    /\ llm_outcome = [t \in Tasks |-> <<"none">>]
    /\ start_index = [t \in Tasks |-> 0]
    /\ end_index = [t \in Tasks |-> 0]
    /\ attempted = [t \in Tasks |-> <<>>]
    /\ failures = [t \in Tasks |-> <<>>]
    /\ interleaved = [t \in Tasks |-> FALSE]
    /\ observe_tried = FALSE
    /\ tried = [t \in Tasks |-> {}]

\* llm.py:74
NoProviders_Never == FALSE
NoProviders == num_providers = 0

\* llm.py:93 -- the cursor after a provider succeeded
RotateAfterSuccess_Stay(c, n) == c
RotateAfterSuccess(c, n) == (c + 1) % n

\* llm.py:103 -- the cursor after a provider failed
RotateAfterFailure_Stay(c, n) == c
RotateAfterFailure_Twice(c, n) == (c + 2) % n
RotateAfterFailure(c, n) == (c + 1) % n

\* llm.py:80 with one iteration more
LoopContinues_OneMore(i, n) == i + 1 < n + 1

\* llm.py:80 -- for i in range(len(self.providers)): after iteration i the
\* loop goes on when i + 1 is still in the range
LoopContinues(i, n) == i + 1 < n

\* llm.py:106-108
AllFailedError(e) == <<"AllFailed", e>>

\* generate_response runs on from its return into its caller without an await
\* in between (llm.py:96, 108): no other caller steps while a call is returning
NoCallReturning == \A u \in Tasks : call_pc[u] # "done"

\* The observations of the calls after a step of caller t: the step happens
\* inside the calls the other callers are awaiting in, which are marked
\* interleaved; start, attempts and failures are recorded for a call only
\* as long as no other caller has stepped inside it (start s, attempts a,
\* failures f are those of t's call after the step).
Observe(t, s, a, f) ==
    LET inside(u) == u # t /\ call_pc[u] = "awaiting"
        keep(u, new, old, none) ==
            IF u = t THEN (IF interleaved[t] THEN none ELSE new)
            ELSE IF inside(u) THEN none ELSE old
    IN  /\ interleaved' = [u \in Tasks |-> IF inside(u) THEN TRUE ELSE interleaved[u]]
        /\ start_index' = [u \in Tasks |-> keep(u, s, start_index[u], 0)]
        /\ attempted' = [u \in Tasks |-> keep(u, a, attempted[u], <<>>)]
        /\ failures' = [u \in Tasks |-> keep(u, f, failures[u], <<>>)]

\* llm.py:74-75 -- no provider configured: raise at once
LLMBeginNoProviders(t) ==
    /\ call_pc[t] = "idle"
    /\ NoCallReturning
    /\ NoProviders
    /\ call_pc' = [call_pc EXCEPT ![t] = "done"]
    /\ llm_outcome' = [llm_outcome EXCEPT ![t] = <<"raise", <<"NoProviders">>>>]
    /\ end_index' = [end_index EXCEPT ![t] = current_provider_index]
    /\ Observe(t, current_provider_index, <<>>, <<>>)
    /\ UNCHANGED <<observe_tried, num_providers, current_provider_index, loop_i, provider, last_error>>
    /\ UNCHANGED tried
    /\ UNCHANGED notLLMVars

\* llm.py:77-85 -- first iteration: read the cursor, await that provider
\* (a loop over no provider falls through to llm.py:106-108)
LLMBegin(t) ==
    /\ call_pc[t] = "idle"
    /\ NoCallReturning
    /\ ~NoProviders
    /\ last_error' = [last_error EXCEPT ![t] = None]
    /\ loop_i' = [loop_i EXCEPT ![t] = 0]
    /\ IF num_providers > 0
       THEN /\ provider' = [provider EXCEPT ![t] = current_provider_index]
            /\ call_pc' = [call_pc EXCEPT ![t] = "awaiting"]
            /\ Observe(t, current_provider_index, <<current_provider_index>>, <<>>)
            /\ tried' = [tried EXCEPT ![t] = IF observe_tried
                                              THEN {current_provider_index} ELSE {}]
            /\ UNCHANGED <<llm_outcome, end_index>>
       ELSE /\ call_pc' = [call_pc EXCEPT ![t] = "done"]
            /\ llm_outcome' = [llm_outcome EXCEPT ![t] = <<"raise", AllFailedError(None)>>]
            /\ end_index' = [end_index EXCEPT ![t] = current_provider_index]
            /\ Observe(t, current_provider_index, <<>>, <<>>)
            /\ UNCHANGED <<provider, tried>>
    /\ UNCHANGED <<observe_tried, num_providers, current_provider_index>>
    /\ UNCHANGED notLLMVars

\* llm.py:85-96 -- the awaited provider returns: advance the cursor, return its text
LLMProviderSucceeds(t) ==
    /\ call_pc[t] = "awaiting"
    /\ NoCallReturning
    /\ current_provider_index' =
          RotateAfterSuccess(current_provider_index, num_providers)
    /\ end_index' = [end_index EXCEPT ![t] = current_provider_index']
    /\ llm_outcome' = [llm_outcome EXCEPT ![t] = <<"return", <<"text", provider[t]>>>>]
    /\ call_pc' = [call_pc EXCEPT ![t] = "done"]
    /\ Observe(t, start_index[t], attempted[t], failures[t])
    /\ UNCHANGED <<observe_tried, num_providers, loop_i, provider, last_error, tried>>
    /\ UNCHANGED notLLMVars

\* llm.py:98-103 and 80-85 -- the awaited provider raises and the loop goes on:
\* record the error, advance the cursor, await the provider now under the cursor
LLMProviderFailsNext(t) ==
    /\ call_pc[t] = "awaiting"
    /\ NoCallReturning
    /\ LoopContinues(loop_i[t], num_providers)
    /\ last_error' = [last_error EXCEPT ![t] = <<"err", provider[t]>>]
    /\ current_provider_index' =
          RotateAfterFailure(current_provider_index, num_providers)
    /\ loop_i' = [loop_i EXCEPT ![t] = @ + 1]
    /\ provider' = [provider EXCEPT ![t] = current_provider_index']
    /\ Observe(t, start_index[t], Append(attempted[t], current_provider_index'),
               Append(failures[t], provider[t]))
    /\ tried' = [tried EXCEPT ![t] = IF observe_tried
                                      THEN @ \cup {current_provider_index'} ELSE {}]
    /\ UNCHANGED <<observe_tried, num_providers, call_pc, llm_outcome, end_index>>
    /\ UNCHANGED notLLMVars

\* llm.py:98-108 -- the awaited provider raises in the last iteration:
\* record the error, advance the cursor, raise the aggregate error
LLMProviderFailsAll(t) ==
    /\ call_pc[t] = "awaiting"
    /\ NoCallReturning
    /\ ~LoopContinues(loop_i[t], num_providers)
    /\ last_error' = [last_error EXCEPT ![t] = <<"err", provider[t]>>]
    /\ current_provider_index' =
          RotateAfterFailure(current_provider_index, num_providers)
    /\ end_index' = [end_index EXCEPT ![t] = current_provider_index']
    /\ llm_outcome' = [llm_outcome EXCEPT ![t] =
                          <<"raise", AllFailedError(last_error'[t])>>]
    /\ call_pc' = [call_pc EXCEPT ![t] = "done"]
    /\ Observe(t, start_index[t], attempted[t], Append(failures[t], provider[t]))
    /\ UNCHANGED <<observe_tried, num_providers, loop_i, provider, tried>>
    /\ UNCHANGED notLLMVars

\* the caller goes on and will call generate_response again
\* (orchestrator.py:102, 159; code_generator.py:108, 152, 205, 293)
LLMCallerContinues(t) ==
    /\ call_pc[t] = "done"
    /\ call_pc' = [call_pc EXCEPT ![t] = "idle"]
    /\ loop_i' = [loop_i EXCEPT ![t] = 0]
    /\ provider' = [provider EXCEPT ![t] = 0]
    /\ last_error' = [last_error EXCEPT ![t] = None]
    /\ llm_outcome' = [llm_outcome EXCEPT ![t] = <<"none">>]
    /\ start_index' = [start_index EXCEPT ![t] = 0]
    /\ end_index' = [end_index EXCEPT ![t] = 0]
    /\ attempted' = [attempted EXCEPT ![t] = <<>>]
    /\ failures' = [failures EXCEPT ![t] = <<>>]
    /\ interleaved' = [interleaved EXCEPT ![t] = FALSE]
    /\ tried' = [tried EXCEPT ![t] = {}]
    /\ UNCHANGED <<observe_tried, num_providers, current_provider_index>>
    /\ UNCHANGED notLLMVars

NextLLM ==
    \E t \in Tasks :
        \/ LLMBeginNoProviders(t)
        \/ LLMBegin(t)
        \/ LLMProviderSucceeds(t)
        \/ LLMProviderFailsNext(t)
        \/ LLMProviderFailsAll(t)
        \/ LLMCallerContinues(t)


(***************************************************************************)
(* Phase pipeline: one run of process_autonomous_task                      *)
(* (src/src/api/routes.py:127-179) through TaskOrchestrator                *)
(* (src/src/agent/orchestrator.py). Every awaited collaborator call either *)
(* returns or raises; the exception raised by step s of phase ph is        *)
(* <<"err", ph, s>>.                                                       *)
(***************************************************************************)
PhaseOrder == <<"Think", "Plan", "Act", "Review">>

Err(ph, s) == <<"err", ph, s>>

\* max_attempts of the callback, orchestrator.py:303
CallbackMaxAttempts == 5

\* no deployment result yet
NoDeployment == [repo_url |-> "none", commit_sha |-> 0, pages_url |-> "none"]

\* routes.py:84-89 -- the task is queued with its task_data
PipeInit ==
    /\ task_round \in 1..MaxRound
    /\ prior_repo_url \in BOOLEAN
    /\ evaluation_url \in BOOLEAN
    /\ pipe_pc = "queued"
    /\ run_path = "none"
    /\ pending_exc = None
    /\ run_outcome = <<"none">>
    /\ task_status = "pending"
    /\ task_error = None
    /\ workspace_exists = FALSE
    /\ phase_log = <<>>
    /\ phases_done = <<>>
    /\ ops_log = <<>>
    /\ workspaces = FALSE
    /\ analysis = "none"
    /\ plan = "none"
    /\ existing_files = "none"
    /\ callback_result = "none"
    /\ deployment_recorded = FALSE
    /\ status_log = <<>>
    /\ evaluator_outcome = <<"none">>
    /\ cleanup_failed = FALSE
    /\ repo_head = 0
    /\ deployment_result = NoDeployment
    /\ callback_log = <<>>
    /\ callback_payload = <<"none">>

\* no task is queued
PipeIdle ==
    /\ task_round = 1
    /\ prior_repo_url = FALSE
    /\ evaluation_url = FALSE
    /\ pipe_pc = "done"
    /\ run_path = "none"
    /\ pending_exc = None
    /\ run_outcome = <<"none">>
    /\ task_status = "pending"
    /\ task_error = None
    /\ workspace_exists = FALSE
    /\ phase_log = <<>>
    /\ phases_done = <<>>
    /\ ops_log = <<>>
    /\ workspaces = FALSE
    /\ analysis = "none"
    /\ plan = "none"
    /\ existing_files = "none"
    /\ callback_result = "none"
    /\ deployment_recorded = FALSE
    /\ status_log = <<>>
    /\ evaluator_outcome = <<"none">>
    /\ cleanup_failed = FALSE
    /\ repo_head = 0
    /\ deployment_result = NoDeployment
    /\ callback_log = <<>>
    /\ callback_payload = <<"none">>

\* routes.py:138-157 without the test of the round-1 record
UsesUpdatePath_AnyRound2 == task_round = 2

\* routes.py:138-157 -- which orchestrator entry point the run takes
UsesUpdatePath == task_round = 2 /\ prior_repo_url

\* routes.py:129-133 -- update_task_status(task_id, "processing")
StartProcessing ==
    /\ pipe_pc = "queued"
    /\ \E ok \in BOOLEAN :
          IF ok
          THEN /\ task_status' = "processing"
               /\ status_log' = Append(status_log, "processing")
               /\ pipe_pc' = "dispatch"
               /\ UNCHANGED pending_exc
          ELSE /\ pending_exc' = Err("Background", "update_task_status")
               /\ pipe_pc' = "handler"
               /\ UNCHANGED <<task_status, status_log>>
    /\ UNCHANGED <<task_round, prior_repo_url, evaluation_url, run_path, run_outcome,
                   task_error, workspace_exists, phase_log, phases_done, ops_log>>
    /\ UNCHANGED <<workspaces, analysis, plan, existing_files,
                   callback_result, deployment_recorded>>
    /\ UNCHANGED evaluator_outcome
    /\ UNCHANGED cleanup_failed
    /\ UNCHANGED <<repo_head, deployment_result, callback_log, callback_payload>>
    /\ UNCHANGED notPipeVars

\* routes.py:136-157 -- round 2 looks the round-1 record up; the run enters
\* process_round2_task when it has a repo_url, process_task otherwise
Dispatch ==
    /\ pipe_pc = "dispatch"
    /\ \E ok \in BOOLEAN :
          IF task_round = 2 /\ ~ok
          THEN /\ pending_exc' = Err("Background", "get_task_by_task_id_and_round")
               /\ pipe_pc' = "handler"
               /\ UNCHANGED run_path
          ELSE /\ ok
               /\ run_path' = IF UsesUpdatePath THEN "process_round2_task"
                                                ELSE "process_task"
               /\ pipe_pc' = IF UsesUpdatePath THEN "r2_workspace" ELSE "think"
               /\ UNCHANGED pending_exc
    /\ UNCHANGED <<task_round, prior_repo_url, evaluation_url, run_outcome,
                   task_status, task_error, workspace_exists, phase_log, phases_done,
                   ops_log>>
    /\ UNCHANGED <<workspaces, analysis, plan, existing_files,
                   callback_result, deployment_recorded, status_log>>
    /\ UNCHANGED evaluator_outcome
    /\ UNCHANGED cleanup_failed
    /\ UNCHANGED <<repo_head, deployment_result, callback_log, callback_payload>>
    /\ UNCHANGED notPipeVars

\* what generate_response can return: the requested JSON object, another JSON
\* value (a list, a number, an object without the requested keys), or text
\* that is not JSON
LLMTexts == {"object", "other_json", "not_json"}

\* orchestrator.py:109-120 and 166-200 -- json.loads; only a JSONDecodeError
\* is replaced by the fallback value
ParseOrFallback(text) == IF text = "not_json" THEN "fallback" ELSE text

\* orchestrator.py:53-55, 76-122 -- Think: one LLM call; text that is not JSON
\* is replaced by the default analysis; a failure of the LLM layer propagates
ThinkPhase ==
    /\ pipe_pc = "think"
    /\ phase_log' = Append(phase_log, "Think")
    /\ \E llm \in LLMTexts \cup {"raise"} :
          IF llm = "raise"
          THEN /\ pending_exc' = Err("Think", "generate_response")
               /\ pipe_pc' = "pt_except"
               /\ UNCHANGED <<phases_done, analysis>>
          ELSE /\ analysis' = ParseOrFallback(llm)
               /\ phases_done' = Append(phases_done, "Think")
               /\ pipe_pc' = "plan"
               /\ UNCHANGED pending_exc
    /\ UNCHANGED <<task_round, prior_repo_url, evaluation_url, run_path, run_outcome,
                   task_status, task_error, workspace_exists, ops_log>>
    /\ UNCHANGED <<workspaces, plan, existing_files, callback_result,
                   deployment_recorded, status_log>>
    /\ UNCHANGED evaluator_outcome
    /\ UNCHANGED cleanup_failed
    /\ UNCHANGED <<repo_head, deployment_result, callback_log, callback_payload>>
    /\ UNCHANGED notPipeVars

\* orchestrator.py:57-59, 124-202 -- Plan: same pattern as Think
PlanPhase ==
    /\ pipe_pc = "plan"
    /\ phase_log' = Append(phase_log, "Plan")
    /\ \E llm \in LLMTexts \cup {"raise"} :
          IF llm = "raise"
          THEN /\ pending_exc' = Err("Plan", "generate_response")
               /\ pipe_pc' = "pt_except"
               /\ UNCHANGED <<phases_done, plan>>
          ELSE /\ plan' = ParseOrFallback(llm)
               /\ phases_done' = Append(phases_done, "Plan")
               /\ pipe_pc' = "act_workspace"
               /\ UNCHANGED pending_exc
    /\ UNCHANGED <<task_round, prior_repo_url, evaluation_url, run_path, run_outcome,
                   task_status, task_error, workspace_exists, ops_log>>
    /\ UNCHANGED <<workspaces, analysis, existing_files, callback_result,
                   deployment_recorded, status_log>>
    /\ UNCHANGED evaluator_outcome
    /\ UNCHANGED cleanup_failed
    /\ UNCHANGED <<repo_head, deployment_result, callback_log, callback_payload>>
    /\ UNCHANGED notPipeVars

\* github.py:282-371, 377-425 -- a write to the repository that succeeds makes
\* one commit, which becomes the head
RepositoryWrite(head) == head + 1

\* one awaited step inside the try block of _act_phase or process_round2_task:
\* it starts collaborator operation op; on success the run moves to `next`,
\* on failure the exception unwinds to the finally block at `cleanup`
TryStep(at, op, ph, next, cleanup) ==
    /\ pipe_pc = at
    /\ ops_log' = Append(ops_log, op)
    /\ \E ok \in BOOLEAN :
          IF ok
          THEN /\ pipe_pc' = next
               /\ UNCHANGED pending_exc
          ELSE /\ pending_exc' = Err(ph, op)
               /\ pipe_pc' = cleanup

\* orchestrator.py:61-63, 207-215 and tools.py:33-51 -- Act starts: the
\* workspace is created and registered (a failure may leave the directory
\* behind, unregistered)
ActCreateWorkspace ==
    /\ TryStep("act_workspace", "create_workspace", "Act", "act_generate", "act_cleanup")
    /\ phase_log' = Append(phase_log, "Act")
    /\ \E made \in BOOLEAN : workspace_exists' = (pipe_pc' = "act_generate" \/ made)
    /\ workspaces' = (pipe_pc' = "act_generate")
    /\ UNCHANGED <<task_round, prior_repo_url, evaluation_url, run_path, run_outcome,
                   task_status, task_error, phases_done>>
    /\ UNCHANGED <<analysis, plan, existing_files, callback_result,
                   deployment_recorded, status_log>>
    /\ UNCHANGED evaluator_outcome
    /\ UNCHANGED cleanup_failed
    /\ UNCHANGED <<repo_head, deployment_result, callback_log, callback_payload>>
    /\ UNCHANGED notPipeVars

\* orchestrator.py:217-223 -- the code generator builds the artifact
ActGenerate ==
    /\ TryStep("act_generate", "generate_application", "Act", "act_explain", "act_cleanup")
    /\ UNCHANGED <<task_round, prior_repo_url, evaluation_url, run_path, run_outcome,
                   task_status, task_error, workspace_exists, phase_log, phases_done>>
    /\ UNCHANGED <<workspaces, analysis, plan, existing_files,
                   callback_result, deployment_recorded, status_log>>
    /\ UNCHANGED evaluator_outcome
    /\ UNCHANGED cleanup_failed
    /\ UNCHANGED <<repo_head, deployment_result, callback_log, callback_payload>>
    /\ UNCHANGED notPipeVars

\* orchestrator.py:225-242 -- code explanation and the README with placeholders
ActExplain ==
    /\ TryStep("act_explain", "generate_code_explanation", "Act", "act_deploy", "act_cleanup")
    /\ UNCHANGED <<task_round, prior_repo_url, evaluation_url, run_path, run_outcome,
                   task_status, task_error, workspace_exists, phase_log, phases_done>>
    /\ UNCHANGED <<workspaces, analysis, plan, existing_files,
                   callback_result, deployment_recorded, status_log>>
    /\ UNCHANGED evaluator_outcome
    /\ UNCHANGED cleanup_failed
    /\ UNCHANGED <<repo_head, deployment_result, callback_log, callback_payload>>
    /\ UNCHANGED notPipeVars

\* orchestrator.py:244-245, 387-403 -- deploy_application on the hosting collaborator
ActDeploy ==
    /\ TryStep("act_deploy", "deploy_application", "Act", "act_callback", "act_cleanup")
    /\ IF pipe_pc' = "act_callback"
       THEN /\ repo_head' = RepositoryWrite(repo_head)
            /\ deployment_result' = [repo_url |-> "new_repo", commit_sha |-> repo_head',
                                     pages_url |-> "new_pages"]
       ELSE UNCHANGED <<repo_head, deployment_result>>
    /\ UNCHANGED <<task_round, prior_repo_url, evaluation_url, run_path, run_outcome,
                   task_status, task_error, workspace_exists, phase_log, phases_done>>
    /\ UNCHANGED <<workspaces, analysis, plan, existing_files,
                   callback_result, deployment_recorded, status_log>>
    /\ UNCHANGED evaluator_outcome
    /\ UNCHANGED cleanup_failed
    /\ UNCHANGED <<callback_log, callback_payload>>
    /\ UNCHANGED notPipeVars

\* orchestrator.py:287-295 -- the payload of the callback
Payload(dep) ==
    [email |-> "email", task |-> "task_id", round |-> task_round, nonce |-> "nonce",
     repo_url |-> dep.repo_url, commit_sha |-> dep.commit_sha,
     pages_url |-> dep.pages_url]

\* retry.py:45-63 with the loop going on after a success
PostWithRetry_KeepsPosting(k, ok_at, max) ==
    [i \in 1..max |-> IF i >= ok_at THEN "ok" ELSE "err"]

\* retry.py:45-63, 90-100 -- the POSTs of post_with_retry from invocation
\* k on, when invocation ok_at is the first that succeeds: the
\* loop returns at the first success and raises after invocation max
RECURSIVE PostWithRetry(_, _, _)
PostWithRetry(k, ok_at, max) ==
    IF k = ok_at THEN <<"ok">>
    ELSE IF k = max THEN <<"err">>
    ELSE <<"err">> \o PostWithRetry(k + 1, ok_at, max)

\* orchestrator.py:275-309 with the except clause left out
SendCallback_Propagates(at, next) ==
    /\ pipe_pc = at
    /\ IF evaluation_url
       THEN /\ ops_log' = Append(ops_log, "callback")
            /\ callback_payload' = <<"payload", Payload(deployment_result)>>
            /\ \E ok_at \in 1..(CallbackMaxAttempts + 1) :
                  LET log == PostWithRetry(1, ok_at, CallbackMaxAttempts)
                  IN  /\ callback_log' = log
                      /\ IF log[Len(log)] = "ok"
                         THEN /\ callback_result' = "delivered"
                              /\ pipe_pc' = next
                              /\ UNCHANGED pending_exc
                         ELSE /\ callback_result' = "failed"
                              /\ pending_exc' = Err("Act", "callback")
                              /\ pipe_pc' = IF at = "act_callback" THEN "act_cleanup"
                                                                   ELSE "r2_cleanup"
       ELSE /\ callback_result' = "not_sent"
            /\ pipe_pc' = next
            /\ UNCHANGED <<ops_log, pending_exc, callback_log, callback_payload>>

\* orchestrator.py:275-309 -- _send_evaluation_callback: nothing is sent without
\* an evaluation URL; the payload is POSTed through post_with_retry; a delivery
\* that fails after its retries is only logged
SendCallback(at, next) ==
    /\ pipe_pc = at
    /\ pipe_pc' = next
    /\ UNCHANGED pending_exc
    /\ IF evaluation_url
       THEN /\ ops_log' = Append(ops_log, "callback")
            /\ callback_payload' = <<"payload", Payload(deployment_result)>>
            /\ \E ok_at \in 1..(CallbackMaxAttempts + 1) :
                  LET log == PostWithRetry(1, ok_at, CallbackMaxAttempts)
                  IN  /\ callback_log' = log
                      /\ callback_result' = IF log[Len(log)] = "ok" THEN "delivered"
                                                                    ELSE "failed"
       ELSE /\ callback_result' = "not_sent"
            /\ UNCHANGED <<ops_log, callback_log, callback_payload>>

\* orchestrator.py:405-408 -- the callback of a fresh deployment
ActCallback ==
    /\ SendCallback("act_callback", "act_readme")
    /\ UNCHANGED <<task_round, prior_repo_url, evaluation_url, run_path,
                   run_outcome, task_status, task_error, workspace_exists, phase_log,
                   phases_done>>
    /\ UNCHANGED <<workspaces, analysis, plan, existing_files,
                   deployment_recorded, status_log>>
    /\ UNCHANGED evaluator_outcome
    /\ UNCHANGED cleanup_failed
    /\ UNCHANGED <<repo_head, deployment_result>>
    /\ UNCHANGED notPipeVars

\* orchestrator.py:247-269 -- the README with the real URLs is committed
ActUpdateReadme ==
    /\ TryStep("act_readme", "update_repository", "Act", "act_cleanup", "act_cleanup")
    /\ repo_head' = IF pending_exc' = None THEN RepositoryWrite(repo_head) ELSE repo_head
    /\ UNCHANGED <<task_round, prior_repo_url, evaluation_url, run_path, run_outcome,
                   task_status, task_error, workspace_exists, phase_log, phases_done>>
    /\ UNCHANGED <<workspaces, analysis, plan, existing_files,
                   callback_result, deployment_recorded, status_log>>
    /\ UNCHANGED evaluator_outcome
    /\ UNCHANGED cleanup_failed
    /\ UNCHANGED <<deployment_result, callback_log, callback_payload>>
    /\ UNCHANGED notPipeVars

\* tools.py:54-65 with the body left out
CleanupWorkspace_Skip(at) ==
    /\ pipe_pc = at
    /\ UNCHANGED <<ops_log, workspace_exists, workspaces, cleanup_failed, pending_exc>>

\* tools.py:54-65 with line 62 left out
CleanupWorkspace_KeepTracked(at) ==
    /\ pipe_pc = at
    /\ ops_log' = Append(ops_log, "cleanup_workspace")
    /\ \E removed \in BOOLEAN :
          /\ workspace_exists' = (workspace_exists /\ ~removed)
          /\ cleanup_failed' = (workspace_exists /\ ~removed)
    /\ UNCHANGED <<workspaces, pending_exc>>

\* tools.py:54-65 with the except clause left out
CleanupWorkspace_Raises(at) ==
    /\ pipe_pc = at
    /\ ops_log' = Append(ops_log, "cleanup_workspace")
    /\ \E removed \in BOOLEAN :
          /\ workspace_exists' = (workspace_exists /\ ~removed)
          /\ cleanup_failed' = (workspace_exists /\ ~removed)
          /\ workspaces' = (workspaces /\ workspace_exists /\ ~removed)
          /\ pending_exc' = IF workspace_exists /\ ~removed
                            THEN Err("Act", "cleanup_workspace") ELSE pending_exc

\* tools.py:54-65 -- cleanup_workspace removes the directory and the registry
\* entry; when the removal raises, the failure is logged, not raised, and
\* line 62 is not reached
CleanupWorkspace(at) ==
    /\ pipe_pc = at
    /\ ops_log' = Append(ops_log, "cleanup_workspace")
    /\ \E removed \in BOOLEAN :
          /\ workspace_exists' = (workspace_exists /\ ~removed)
          /\ cleanup_failed' = (workspace_exists /\ ~removed)
          /\ workspaces' = (workspaces /\ workspace_exists /\ ~removed)
    /\ UNCHANGED pending_exc

\* orchestrator.py:271-273 -- finally of _act_phase: Act returns its result, or
\* the pending exception goes on to the except clause of process_task
ActCleanup ==
    /\ CleanupWorkspace("act_cleanup")
    /\ IF pending_exc' = None
       THEN /\ phases_done' = Append(phases_done, "Act")
            /\ pipe_pc' = "review"
       ELSE /\ pipe_pc' = "pt_except"
            /\ UNCHANGED phases_done
    /\ UNCHANGED <<task_round, prior_repo_url, evaluation_url, run_path,
                   run_outcome, task_status, task_error, phase_log>>
    /\ UNCHANGED <<analysis, plan, existing_files, callback_result,
                   deployment_recorded, status_log>>
    /\ UNCHANGED evaluator_outcome
    /\ UNCHANGED <<repo_head, deployment_result, callback_log, callback_payload>>
    /\ UNCHANGED notPipeVars

\* the checks of the task, by their index in task_data['checks']
TaskChecks == 1..MaxChecks

RECURSIVE SortedSeq(_)
SortedSeq(S) ==
    IF S = {} THEN <<>>
    ELSE LET m == CHOOSE x \in S : \A y \in S : x <= y
         IN  <<m>> \o SortedSeq(S \ {m})

\* what evaluate_page can return for the checks of the task
\* (evaluator.py:55-63, 85-98): no check run, or each check passed or failed
EvaluationResults ==
    {[checks_passed |-> <<>>, checks_failed |-> <<>>,
      total_checks |-> Cardinality(TaskChecks), score |-> <<0, 1>>]}
    \cup {[checks_passed |-> SortedSeq(P), checks_failed |-> SortedSeq(TaskChecks \ P),
           total_checks |-> Cardinality(TaskChecks),
           score |-> <<Cardinality(P), Cardinality(TaskChecks)>>] : P \in SUBSET TaskChecks}

\* how the evaluator scope of orchestrator.py:437-453 can end: with a result
\* of evaluate_page, or with an exception of __aenter__ or __aexit__
\* (evaluator.py:23-34)
EvaluatorOutcomes ==
    {<<"return", r>> : r \in EvaluationResults}
    \cup {<<"raise", e>> : e \in {"playwright.start", "chromium.launch",
                                  "browser.close", "playwright.stop"}}

\* orchestrator.py:454-461 with another score
NeutralQuality_Zero(e) ==
    [overall_score |-> <<0, 1>>, passed |-> <<>>, failed |-> SortedSeq(TaskChecks),
     recommendations |-> <<<<"Evaluation error", e>>>>]

\* orchestrator.py:454-461 -- the result that replaces a failed evaluation
NeutralQuality(e) ==
    [overall_score |-> <<1, 2>>, passed |-> <<>>, failed |-> SortedSeq(TaskChecks),
     recommendations |-> <<<<"Evaluation error", e>>>>]

\* orchestrator.py:430-461 -- _run_quality_checks
RunQualityChecks(ev) ==
    IF ev[1] = "raise"
    THEN NeutralQuality(ev[2])
    ELSE [overall_score |-> ev[2].score, passed |-> ev[2].checks_passed,
          failed |-> ev[2].checks_failed,
          recommendations |-> <<<<"Application deployed successfully">>,
                                <<"Passed", Len(ev[2].checks_passed),
                                  ev[2].total_checks>>>>]

\* orchestrator.py:416-428 -- the final report
FinalReport(quality_checks) ==
    [status |-> "completed", quality_score |-> quality_checks.overall_score,
     checks_passed |-> quality_checks.passed, checks_failed |-> quality_checks.failed,
     recommendations |-> quality_checks.recommendations]

\* orchestrator.py:65-70, 410-461 -- Review: the evaluator's result, or the
\* neutral result when the evaluation raises; process_task returns the report
ReviewPhase ==
    /\ pipe_pc = "review"
    /\ phase_log' = Append(phase_log, "Review")
    /\ phases_done' = Append(phases_done, "Review")
    /\ ops_log' = Append(ops_log, "evaluate_page")
    /\ \E ev \in EvaluatorOutcomes :
          /\ evaluator_outcome' = ev
          /\ run_outcome' = <<"return", FinalReport(RunQualityChecks(ev))>>
    /\ pipe_pc' = "record"
    /\ UNCHANGED <<task_round, prior_repo_url, evaluation_url, run_path, pending_exc,
                   task_status, task_error, workspace_exists>>
    /\ UNCHANGED <<workspaces, analysis, plan, existing_files,
                   callback_result, deployment_recorded, status_log>>
    /\ UNCHANGED cleanup_failed
    /\ UNCHANGED <<repo_head, deployment_result, callback_log, callback_payload>>
    /\ UNCHANGED notPipeVars

\* orchestrator.py:72-74 with the raise left out
ProcessTaskExcept_Swallow ==
    /\ pipe_pc = "pt_except"
    /\ run_outcome' = <<"return", None>>
    /\ pipe_pc' = "record"
    /\ UNCHANGED <<task_round, prior_repo_url, evaluation_url, run_path, pending_exc,
                   task_status, task_error, workspace_exists, phase_log, phases_done,
                   ops_log>>
    /\ UNCHANGED <<workspaces, analysis, plan, existing_files,
                   callback_result, deployment_recorded, status_log>>
    /\ UNCHANGED evaluator_outcome
    /\ UNCHANGED cleanup_failed
    /\ UNCHANGED <<repo_head, deployment_result, callback_log, callback_payload>>
    /\ UNCHANGED notPipeVars

\* orchestrator.py:72-74 -- except of process_task: log and re-raise
ProcessTaskExcept ==
    /\ pipe_pc = "pt_except"
    /\ run_outcome' = <<"raise", pending_exc>>
    /\ pipe_pc' = "handler"
    /\ UNCHANGED <<task_round, prior_repo_url, evaluation_url, run_path, pending_exc,
                   task_status, task_error, workspace_exists, phase_log, phases_done,
                   ops_log>>
    /\ UNCHANGED <<workspaces, analysis, plan, existing_files,
                   callback_result, deployment_recorded, status_log>>
    /\ UNCHANGED evaluator_outcome
    /\ UNCHANGED cleanup_failed
    /\ UNCHANGED <<repo_head, deployment_result, callback_log, callback_payload>>
    /\ UNCHANGED notPipeVars

\* orchestrator.py:316-321 -- round-2 update: the workspace is created
R2CreateWorkspace ==
    /\ TryStep("r2_workspace", "create_workspace", "Round2", "r2_update", "r2_cleanup")
    /\ \E made \in BOOLEAN : workspace_exists' = (pipe_pc' = "r2_update" \/ made)
    /\ workspaces' = (pipe_pc' = "r2_update")
    /\ UNCHANGED <<task_round, prior_repo_url, evaluation_url, run_path, run_outcome,
                   task_status, task_error, phase_log, phases_done>>
    /\ UNCHANGED <<analysis, plan, existing_files, callback_result,
                   deployment_recorded, status_log>>
    /\ UNCHANGED evaluator_outcome
    /\ UNCHANGED cleanup_failed
    /\ UNCHANGED <<repo_head, deployment_result, callback_log, callback_payload>>
    /\ UNCHANGED notPipeVars

\* orchestrator.py:323-337 -- the code generator updates the artifact; the
\* existing files it is given are three empty strings
R2UpdateApplication ==
    /\ TryStep("r2_update", "update_application", "Round2", "r2_explain", "r2_cleanup")
    /\ existing_files' = "empty_placeholders"
    /\ UNCHANGED <<task_round, prior_repo_url, evaluation_url, run_path, run_outcome,
                   task_status, task_error, workspace_exists, phase_log, phases_done>>
    /\ UNCHANGED <<workspaces, analysis, plan, callback_result,
                   deployment_recorded, status_log>>
    /\ UNCHANGED evaluator_outcome
    /\ UNCHANGED cleanup_failed
    /\ UNCHANGED <<repo_head, deployment_result, callback_log, callback_payload>>
    /\ UNCHANGED notPipeVars

\* orchestrator.py:339-355 -- code explanation and README
R2Explain ==
    /\ TryStep("r2_explain", "generate_code_explanation", "Round2", "r2_repo", "r2_cleanup")
    /\ UNCHANGED <<task_round, prior_repo_url, evaluation_url, run_path, run_outcome,
                   task_status, task_error, workspace_exists, phase_log, phases_done>>
    /\ UNCHANGED <<workspaces, analysis, plan, existing_files,
                   callback_result, deployment_recorded, status_log>>
    /\ UNCHANGED evaluator_outcome
    /\ UNCHANGED cleanup_failed
    /\ UNCHANGED <<repo_head, deployment_result, callback_log, callback_payload>>
    /\ UNCHANGED notPipeVars

\* orchestrator.py:357-372 -- the updated files are committed to the existing repository
R2UpdateRepository ==
    /\ TryStep("r2_repo", "update_repository", "Round2", "r2_callback", "r2_cleanup")
    /\ IF pipe_pc' = "r2_callback"
       THEN /\ repo_head' = RepositoryWrite(repo_head)
            /\ deployment_result' = [repo_url |-> "existing_repo",
                                     commit_sha |-> repo_head',
                                     pages_url |-> "existing_pages"]
       ELSE UNCHANGED <<repo_head, deployment_result>>
    /\ UNCHANGED <<task_round, prior_repo_url, evaluation_url, run_path, run_outcome,
                   task_status, task_error, workspace_exists, phase_log, phases_done>>
    /\ UNCHANGED <<workspaces, analysis, plan, existing_files,
                   callback_result, deployment_recorded, status_log>>
    /\ UNCHANGED evaluator_outcome
    /\ UNCHANGED cleanup_failed
    /\ UNCHANGED <<callback_log, callback_payload>>
    /\ UNCHANGED notPipeVars

\* orchestrator.py:374-375 -- the callback of a round-2 update
R2Callback ==
    /\ SendCallback("r2_callback", "r2_cleanup")
    /\ UNCHANGED <<task_round, prior_repo_url, evaluation_url, run_path,
                   run_outcome, task_status, task_error, workspace_exists, phase_log,
                   phases_done>>
    /\ UNCHANGED <<workspaces, analysis, plan, existing_files,
                   deployment_recorded, status_log>>
    /\ UNCHANGED evaluator_outcome
    /\ UNCHANGED cleanup_failed
    /\ UNCHANGED <<repo_head, deployment_result>>
    /\ UNCHANGED notPipeVars

\* orchestrator.py:377-385 -- finally of process_round2_task, then its result
\* or the pending exception reaches process_autonomous_task
R2Cleanup ==
    /\ CleanupWorkspace("r2_cleanup")
    /\ IF pending_exc' = None
       THEN /\ run_outcome' = <<"return", "update_result">>
            /\ pipe_pc' = "record"
       ELSE /\ run_outcome' = <<"raise", pending_exc'>>
            /\ pipe_pc' = "handler"
    /\ UNCHANGED <<task_round, prior_repo_url, evaluation_url, run_path,
                   task_status, task_error, phase_log, phases_done>>
    /\ UNCHANGED <<analysis, plan, existing_files, callback_result,
                   deployment_recorded, status_log>>
    /\ UNCHANGED evaluator_outcome
    /\ UNCHANGED <<repo_head, deployment_result, callback_log, callback_payload>>
    /\ UNCHANGED notPipeVars

\* routes.py:159-165 -- the deployment of the result is recorded
RecordResult ==
    /\ pipe_pc = "record"
    /\ \E ok \in BOOLEAN :
          IF ok
          THEN /\ deployment_recorded' = TRUE
               /\ pipe_pc' = "complete"
               /\ UNCHANGED pending_exc
          ELSE /\ pending_exc' = Err("Background", "update_task_deployment")
               /\ pipe_pc' = "handler"
               /\ UNCHANGED deployment_recorded
    /\ UNCHANGED <<task_round, prior_repo_url, evaluation_url, run_path, run_outcome,
                   task_status, task_error, workspace_exists, phase_log, phases_done,
                   ops_log>>
    /\ UNCHANGED <<workspaces, analysis, plan, existing_files,
                   callback_result, status_log>>
    /\ UNCHANGED evaluator_outcome
    /\ UNCHANGED cleanup_failed
    /\ UNCHANGED <<repo_head, deployment_result, callback_log, callback_payload>>
    /\ UNCHANGED notPipeVars

\* routes.py:167-170 with an exception raised after the update
RecordCompleted_ThenRaise ==
    /\ pipe_pc = "complete"
    /\ task_status' = "completed"
    /\ status_log' = Append(status_log, "completed")
    /\ pending_exc' = Err("Background", "logger.info")
    /\ pipe_pc' = "handler"
    /\ UNCHANGED <<task_round, prior_repo_url, evaluation_url, run_path, run_outcome,
                   task_error, workspace_exists, phase_log, phases_done, ops_log>>
    /\ UNCHANGED <<workspaces, analysis, plan, existing_files,
                   callback_result, deployment_recorded>>
    /\ UNCHANGED evaluator_outcome
    /\ UNCHANGED cleanup_failed
    /\ UNCHANGED <<repo_head, deployment_result, callback_log, callback_payload>>
    /\ UNCHANGED notPipeVars

\* routes.py:167-170 -- update_task_status(task_id, "completed")
RecordCompleted ==
    /\ pipe_pc = "complete"
    /\ \E ok \in BOOLEAN :
          IF ok
          THEN /\ task_status' = "completed"
               /\ status_log' = Append(status_log, "completed")
               /\ pipe_pc' = "done"
               /\ UNCHANGED pending_exc
          ELSE /\ pending_exc' = Err("Background", "update_task_status")
               /\ pipe_pc' = "handler"
               /\ UNCHANGED <<task_status, status_log>>
    /\ UNCHANGED <<task_round, prior_repo_url, evaluation_url, run_path, run_outcome,
                   task_error, workspace_exists, phase_log, phases_done, ops_log>>
    /\ UNCHANGED <<workspaces, analysis, plan, existing_files,
                   callback_result, deployment_recorded>>
    /\ UNCHANGED evaluator_outcome
    /\ UNCHANGED cleanup_failed
    /\ UNCHANGED <<repo_head, deployment_result, callback_log, callback_payload>>
    /\ UNCHANGED notPipeVars

\* routes.py:172-179 -- except of process_autonomous_task: the status is set
\* to failed, then the error message is stored; when one of the two updates
\* raises, the exception leaves the background task
RecordFailure ==
    /\ pipe_pc = "handler"
    /\ \E raises \in {"nothing", "update_task_status", "update_task_error"} :
          /\ IF raises = "update_task_status"
             THEN UNCHANGED <<task_status, status_log>>
             ELSE /\ task_status' = "failed"
                  /\ status_log' = Append(status_log, "failed")
          /\ IF raises = "nothing"
             THEN task_error' = pending_exc
             ELSE UNCHANGED task_error
    /\ pipe_pc' = "done"
    /\ UNCHANGED <<task_round, prior_repo_url, evaluation_url, run_path, pending_exc,
                   run_outcome, workspace_exists, phase_log, phases_done, ops_log>>
    /\ UNCHANGED <<workspaces, analysis, plan, existing_files,
                   callback_result, deployment_recorded>>
    /\ UNCHANGED evaluator_outcome
    /\ UNCHANGED cleanup_failed
    /\ UNCHANGED <<repo_head, deployment_result, callback_log, callback_payload>>
    /\ UNCHANGED notPipeVars

NextPipeline ==
    \/ StartProcessing
    \/ Dispatch
    \/ ThinkPhase
    \/ PlanPhase
    \/ ActCreateWorkspace
    \/ ActGenerate
    \/ ActExplain
    \/ ActDeploy
    \/ ActCallback
    \/ ActUpdateReadme
    \/ ActCleanup
    \/ ReviewPhase
    \/ ProcessTaskExcept
    \/ R2CreateWorkspace
    \/ R2UpdateApplication
    \/ R2Explain
    \/ R2UpdateRepository
    \/ R2Callback
    \/ R2Cleanup
    \/ RecordResult
    \/ RecordCompleted
    \/ RecordFailure

(***************************************************************************)
(* Evaluation engine: PlaywrightEvaluator (src/src/agent/evaluator.py),    *)
(* used as one scope with one evaluate_page call                           *)
(* (src/src/agent/orchestrator.py:435-442).                                *)
(* A check string is the set of the markers it contains: "js:" says that   *)
(* it starts with 'js:', "#id" that it holds a '#token', the others that   *)
(* the lower-cased string holds that word.  An entry i of checks_passed    *)
(* stands for the string checks[i], an entry <<i, r>> of checks_failed for *)
(* {'check': checks[i], 'reason': r}.  A score n/d is the pair <<n, d>>.   *)
(***************************************************************************)
Markers == {"js:", "license", "mit", "readme", "title", "#id", "bootstrap"}

\* the check strings of the lists of SpecEval: a JS expression, a free-text
\* requirement, a selector check, a title check, a selector check that also
\* names the README
CheckStrings == {{"js:"}, {}, {"#id"}, {"title"}, {"#id", "readme"}}

\* what page.evaluate can hand back for a JS expression
JsValues == {"true", "false", "0"}

\* response.status of the responses page.goto can return
Statuses == {200, 204, 404}

\* what the page holds: the element a check names, a title sharing a word
\* with the check, the bootstrap library
PageFacts == [element : BOOLEAN, title_match : BOOLEAN, bootstrap : BOOLEAN]

RECURSIVE SeqsUpTo(_, _)
SeqsUpTo(S, n) ==
    IF n = 0 THEN {<<>>}
    ELSE LET shorter == SeqsUpTo(S, n - 1)
         IN  shorter \cup {Append(q, x) : q \in {r \in shorter : Len(r) = n - 1}, x \in S}

\* evaluator.py:55-63
InitialResults(cs) ==
    [checks_passed |-> <<>>, checks_failed |-> <<>>, total_checks |-> Len(cs),
     score |-> <<0, 1>>, screenshot |-> FALSE, errors |-> <<>>]

EvalStart ==
    /\ playwright = "none"
    /\ browser = "none"
    /\ page_facts \in PageFacts
    /\ eval_pc = "enter_start"
    /\ page = "none"
    /\ check_i = 1
    /\ results = InitialResults(<<>>)
    /\ scope_exit = "none"
    /\ scope_outcome = <<"none">>
    /\ nav_result = <<"none">>
    /\ loaded = FALSE
    /\ exec_log = <<>>

\* evaluator.py:19-21 and the arguments of orchestrator.py:437-441
EvalInit ==
    /\ checks \in SeqsUpTo(CheckStrings, MaxChecks)
    /\ EvalStart

\* the same, for every single check string
CheckInit ==
    /\ checks \in {<<c>> : c \in SUBSET Markers}
    /\ EvalStart

EvalIdle ==
    /\ playwright = "none"
    /\ browser = "none"
    /\ checks = <<>>
    /\ page_facts = [element |-> FALSE, title_match |-> FALSE, bootstrap |-> FALSE]
    /\ eval_pc = "exited"
    /\ page = "none"
    /\ check_i = 1
    /\ results = InitialResults(<<>>)
    /\ scope_exit = "none"
    /\ scope_outcome = <<"none">>
    /\ nav_result = <<"none">>
    /\ loaded = FALSE
    /\ exec_log = <<>>

\* evaluator.py:72 -- the response test of the navigation
BadResponse_Never(nav) == FALSE
BadResponse(nav) ==
    nav = <<"no_response">> \/ (nav[1] = "response" /\ nav[2] # 200)

\* evaluator.py:73 -- the entry of errors for a bad response
StatusError(nav) ==
    IF nav = <<"no_response">> THEN <<"Page returned status", "None">>
    ELSE <<"Page returned status", "code", nav[2]>>

\* evaluator.py:152 -- bool(result)
Truthy_Always(v) == TRUE
Truthy(v) == v \notin {"false", "0"}

\* evaluator.py:141-159 -- _run_js_check; ans is the value page.evaluate
\* returns, or "raise"
RunJsCheck(ans) ==
    IF ans = "raise"
    THEN [passed |-> FALSE, reason |-> <<"JS evaluation error", "exc">>]
    ELSE IF Truthy(ans)
         THEN [passed |-> TRUE, reason |-> None]
         ELSE [passed |-> FALSE, reason |-> <<"JS expression returned", ans>>]

\* evaluator.py:209
GenericResult_Fails == [passed |-> FALSE, reason |-> <<"Generic check failed">>]
GenericResult == [passed |-> TRUE, reason |-> <<"Generic check passed">>]

\* evaluator.py:161-212 -- _run_text_check; ans is "raise" when a call on the
\* page (page.content() is the first, line 165) raises
RunTextCheck(check, facts, ans) ==
    IF ans = "raise"
    THEN [passed |-> FALSE, reason |-> <<"Text check error", "exc">>]
    ELSE IF "license" \in check /\ "mit" \in check
    THEN [passed |-> TRUE, reason |-> <<"License check is repo-level">>]
    ELSE IF "readme" \in check
    THEN [passed |-> TRUE, reason |-> <<"README check is repo-level">>]
    ELSE IF "title" \in check
    THEN IF facts.title_match
         THEN [passed |-> TRUE, reason |-> <<"Title matches">>]
         ELSE [passed |-> FALSE, reason |-> <<"Title doesn't match requirement">>]
    ELSE IF "#id" \in check
    THEN IF facts.element
         THEN [passed |-> TRUE, reason |-> <<"Element found">>]
         ELSE [passed |-> FALSE, reason |-> <<"Element not found">>]
    ELSE IF "bootstrap" \in check
    THEN IF facts.bootstrap
         THEN [passed |-> TRUE, reason |-> <<"Bootstrap loaded">>]
         ELSE [passed |-> FALSE, reason |-> <<"Bootstrap not found">>]
    ELSE GenericResult

\* what the page can answer to one check
Answers(check) ==
    IF "js:" \in check THEN JsValues \cup {"raise"} ELSE {"ok", "raise"}

\* evaluator.py:117-139 -- _run_check
RunCheck(check, facts, ans) ==
    IF "js:" \in check THEN RunJsCheck(ans) ELSE RunTextCheck(check, facts, ans)

\* evaluator.py:89-94 -- list.append
AppendResult_Front(lst, e) == <<e>> \o lst
AppendResult(lst, e) == Append(lst, e)

\* evaluator.py:97-98
Score_OfTotal(passed, total) == <<total, total>>
Score(passed, total) == <<Len(passed), total>>

\* an await of the scope body, where the task can be cancelled
InBody == eval_pc \in {"body", "goto", "wait_load", "checks", "screenshot", "close_page"}

\* evaluator.py:25 -- async_playwright().start()
ScopeEnterStart ==
    /\ eval_pc = "enter_start"
    /\ \E ok \in BOOLEAN :
          IF ok
          THEN /\ playwright' = "running"
               /\ eval_pc' = "enter_launch"
               /\ UNCHANGED scope_outcome
          ELSE /\ scope_outcome' = <<"raise", "playwright.start">>
               /\ eval_pc' = "exited"
               /\ UNCHANGED playwright
    /\ UNCHANGED <<browser, checks, page_facts, page, check_i, results, scope_exit,
                   nav_result, loaded, exec_log>>
    /\ UNCHANGED notEvalVars

\* evaluator.py:26-27 -- chromium.launch; when it raises the scope is not
\* entered and __aexit__ is not called
ScopeEnterLaunch ==
    /\ eval_pc = "enter_launch"
    /\ \E ok \in BOOLEAN :
          IF ok
          THEN /\ browser' = "open"
               /\ eval_pc' = "body"
               /\ UNCHANGED scope_outcome
          ELSE /\ scope_outcome' = <<"raise", "chromium.launch">>
               /\ eval_pc' = "exited"
               /\ UNCHANGED browser
    /\ UNCHANGED <<playwright, checks, page_facts, page, check_i, results, scope_exit,
                   nav_result, loaded, exec_log>>
    /\ UNCHANGED notEvalVars

\* evaluator.py:53-66 and 110-115 -- the result is set up and the page opened
EvalNewPage ==
    /\ eval_pc = "body"
    /\ \E ok \in BOOLEAN :
          IF ok
          THEN /\ page' = "open"
               /\ results' = InitialResults(checks)
               /\ eval_pc' = "goto"
          ELSE /\ results' = [InitialResults(checks) EXCEPT
                                 !.errors = <<<<"exc", "new_page">>>>]
               /\ eval_pc' = "returned"
               /\ UNCHANGED page
    /\ UNCHANGED <<playwright, browser, checks, page_facts, check_i, scope_exit,
                   scope_outcome, nav_result, loaded, exec_log>>
    /\ UNCHANGED notEvalVars

\* evaluator.py:69-78 -- page.goto and the test of its response
EvalGoto ==
    /\ eval_pc = "goto"
    /\ \E nav \in {<<"raise">>, <<"no_response">>} \cup {<<"response", s>> : s \in Statuses} :
          /\ nav_result' = nav
          /\ IF nav = <<"raise">>
             THEN /\ results' = [results EXCEPT
                        !.errors = Append(@, <<"Failed to load page", "exc">>)]
                  /\ eval_pc' = "returned"
             ELSE IF BadResponse(nav)
             THEN /\ results' = [results EXCEPT !.errors = Append(@, StatusError(nav))]
                  /\ eval_pc' = "returned"
             ELSE /\ eval_pc' = "wait_load"
                  /\ UNCHANGED results
    /\ UNCHANGED <<playwright, browser, checks, page_facts, page, check_i, scope_exit,
                   scope_outcome, loaded, exec_log>>
    /\ UNCHANGED notEvalVars

\* evaluator.py:81-82 and 110-115 -- wait_for_load_state, then the settle delay
EvalWaitLoad ==
    /\ eval_pc = "wait_load"
    /\ \E ok \in BOOLEAN :
          IF ok
          THEN /\ loaded' = TRUE
               /\ eval_pc' = "checks"
               /\ UNCHANGED results
          ELSE /\ results' = [results EXCEPT
                     !.errors = Append(@, <<"exc", "wait_for_load_state">>)]
               /\ eval_pc' = "returned"
               /\ UNCHANGED loaded
    /\ UNCHANGED <<playwright, browser, checks, page_facts, page, check_i, scope_exit,
                   scope_outcome, nav_result, exec_log>>
    /\ UNCHANGED notEvalVars

\* evaluator.py:85-94 -- one iteration of the loop over checks
EvalRunCheck ==
    /\ eval_pc = "checks"
    /\ check_i <= Len(checks)
    /\ \E ans \in Answers(checks[check_i]) :
          LET check_result == RunCheck(checks[check_i], page_facts, ans)
          IN  /\ exec_log' = Append(exec_log, <<check_i, ans>>)
              /\ results' =
                    IF check_result.passed
                    THEN [results EXCEPT
                            !.checks_passed = AppendResult(@, check_i)]
                    ELSE [results EXCEPT
                            !.checks_failed =
                                AppendResult(@, <<check_i, check_result.reason>>)]
    /\ check_i' = check_i + 1
    /\ UNCHANGED <<playwright, browser, checks, page_facts, eval_pc, page, scope_exit,
                   scope_outcome, nav_result, loaded>>
    /\ UNCHANGED notEvalVars

\* evaluator.py:97-98 -- the loop is over, the score is computed
EvalScore ==
    /\ eval_pc = "checks"
    /\ check_i > Len(checks)
    /\ results' = IF results.total_checks > 0
                  THEN [results EXCEPT
                          !.score = Score(results.checks_passed, results.total_checks)]
                  ELSE results
    /\ eval_pc' = "screenshot"
    /\ UNCHANGED <<playwright, browser, checks, page_facts, page, check_i, scope_exit,
                   scope_outcome, nav_result, loaded, exec_log>>
    /\ UNCHANGED notEvalVars

\* evaluator.py:101-106 -- the screenshot; a failure is logged only
EvalScreenshot ==
    /\ eval_pc = "screenshot"
    /\ \E ok \in BOOLEAN : results' = [results EXCEPT !.screenshot = ok]
    /\ eval_pc' = "close_page"
    /\ UNCHANGED <<playwright, browser, checks, page_facts, page, check_i, scope_exit,
                   scope_outcome, nav_result, loaded, exec_log>>
    /\ UNCHANGED notEvalVars

\* evaluator.py:108 and 110-115 -- page.close(); when it raises the page is
\* in either state
EvalClosePage ==
    /\ eval_pc = "close_page"
    /\ \E ok \in BOOLEAN :
          IF ok
          THEN /\ page' = "closed"
               /\ UNCHANGED results
          ELSE /\ page' \in {"open", "closed"}
               /\ results' = [results EXCEPT
                     !.errors = Append(@, <<"exc", "page.close">>)]
    /\ eval_pc' = "returned"
    /\ UNCHANGED <<playwright, browser, checks, page_facts, check_i, scope_exit,
                   scope_outcome, nav_result, loaded, exec_log>>
    /\ UNCHANGED notEvalVars

\* orchestrator.py:444-453 -- the body of the scope returns its report
ScopeBodyReturns ==
    /\ eval_pc = "returned"
    /\ scope_exit' = "return"
    /\ eval_pc' = "exit_close"
    /\ UNCHANGED <<playwright, browser, checks, page_facts, page, check_i, results,
                   scope_outcome, nav_result, loaded, exec_log>>
    /\ UNCHANGED notEvalVars

\* the task is cancelled at an await of the body: CancelledError leaves
\* evaluate_page (it is not an Exception, evaluator.py:76 and 110)
ScopeBodyCancelled ==
    /\ InBody
    /\ scope_exit' = "cancelled"
    /\ eval_pc' = "exit_close"
    /\ UNCHANGED <<playwright, browser, checks, page_facts, page, check_i, results,
                   scope_outcome, nav_result, loaded, exec_log>>
    /\ UNCHANGED notEvalVars

\* evaluator.py:31-32 -- __aexit__ closes the browser; when close() raises
\* the browser is in either state and line 34 is not reached
ScopeExitCloseBrowser ==
    /\ eval_pc = "exit_close"
    /\ \E ok \in BOOLEAN :
          IF ok
          THEN /\ browser' = "closed"
               /\ eval_pc' = "exit_stop"
               /\ UNCHANGED scope_outcome
          ELSE /\ browser' \in {"open", "closed"}
               /\ scope_outcome' = <<"raise", "browser.close">>
               /\ eval_pc' = "exited"
    /\ UNCHANGED <<playwright, checks, page_facts, page, check_i, results, scope_exit,
                   nav_result, loaded, exec_log>>
    /\ UNCHANGED notEvalVars

\* evaluator.py:33-34 -- __aexit__ stops the driver; the scope is left
ScopeExitStop ==
    /\ eval_pc = "exit_stop"
    /\ \E ok \in BOOLEAN :
          IF ok
          THEN /\ playwright' = "stopped"
               /\ scope_outcome' = IF scope_exit = "cancelled"
                                   THEN <<"raise", "CancelledError">>
                                   ELSE <<"return">>
          ELSE /\ playwright' \in {"running", "stopped"}
               /\ scope_outcome' = <<"raise", "playwright.stop">>
    /\ eval_pc' = "exited"
    /\ UNCHANGED <<browser, checks, page_facts, page, check_i, results, scope_exit,
                   nav_result, loaded, exec_log>>
    /\ UNCHANGED notEvalVars

NextEval ==
    \/ ScopeEnterStart
    \/ ScopeEnterLaunch
    \/ EvalNewPage
    \/ EvalGoto
    \/ EvalWaitLoad
    \/ EvalRunCheck
    \/ EvalScore
    \/ EvalScreenshot
    \/ EvalClosePage
    \/ ScopeBodyReturns
    \/ ScopeBodyCancelled
    \/ ScopeExitCloseBrowser
    \/ ScopeExitStop

(***************************************************************************)
(* POST /request and its background task (src/src/api/routes.py:45-179)    *)
(* over table "tasks" (src/src/models/database.py:72-117). A row is        *)
(* [task_id, round, nonce, status, repo_url, dispatched_to, existing_repo]; *)
(* a URL that is None is <<"none">>, the repository of a task is           *)
(* <<"repo", task_id>>.                                                    *)
(***************************************************************************)
\* the task identifiers, nonces and round numbers requests carry
\* (schemas.py:20-40: round is 1 or greater)
TaskIds == 1..NumTasks
Nonces == 1..(NumTasks + 1)
Rounds == 1..MaxRound

NoUrl == <<"none">>

RepoUrl(task_id) == <<"repo", task_id>>

NoResponse == [task |-> 0, round |-> 0, nonce |-> 0, status |-> "none", error |-> "none"]

\* models/database.py:83,85 -- task_id ... unique=True; nonce ... unique=True:
\* the insert of services/database.py:129-138 raises IntegrityError when a row
\* with this task_id or with this nonce exists, whatever its round
UniqueViolation(rows, task_id, nonce) ==
    \E r \in rows : r.task_id = task_id \/ r.nonce = nonce

\* services/database.py:234-243 -- select(Task).where(Task.task_id == task_id,
\* Task.round == round), scalar_one_or_none: the rows that match
TaskByTaskIdAndRound(rows, task_id, round) ==
    {r \in rows : r.task_id = task_id /\ r.round = round}

\* services/database.py:129-138, models/database.py:92,98 -- the new row:
\* status "pending", no repository yet
NewRow(task_id, round, nonce) ==
    [task_id |-> task_id, round |-> round, nonce |-> nonce, status |-> "pending",
     repo_url |-> NoUrl, dispatched_to |-> "none", existing_repo |-> NoUrl]

ReqInit ==
    /\ db_rows = {}
    /\ http_response = NoResponse

ReqIdle ==
    /\ db_rows = {}
    /\ http_response = NoResponse

\* routes.py:45-102 request_task: the rate limit always passes (196-200); inside
\* the try the submission is fetched, the row is inserted (81) and the background
\* task queued (84-89), and "accepted" is answered (92-98); any exception,
\* the IntegrityError of the insert or a failure of the database, is answered
\* with HTTP 500 (100-102) and nothing is queued
RequestTask(task_id, round, nonce) ==
    /\ \E db_fails \in BOOLEAN :
         IF db_fails
         THEN /\ http_response' = [task |-> task_id, round |-> round, nonce |-> nonce,
                                   status |-> "500", error |-> "OperationalError"]
              /\ UNCHANGED db_rows
         ELSE IF UniqueViolation(db_rows, task_id, nonce)
         THEN /\ http_response' = [task |-> task_id, round |-> round, nonce |-> nonce,
                                   status |-> "500", error |-> "IntegrityError"]
              /\ UNCHANGED db_rows
         ELSE /\ db_rows' = db_rows \cup {NewRow(task_id, round, nonce)}
              /\ http_response' = [task |-> task_id, round |-> round, nonce |-> nonce,
                                   status |-> "accepted", error |-> "none"]
    /\ UNCHANGED notReqVars

\* routes.py:127-157 process_autonomous_task, up to the call of the orchestrator:
\* status "processing" (133); for round 2 the round-1 row of the same task_id is
\* looked up (140-143) and, when it has a repo_url, process_round2_task is called
\* with it (145-150); otherwise process_task (151-157)
BackgroundDispatch(row) ==
    /\ row \in db_rows
    /\ row.status = "pending"
    /\ LET existing == TaskByTaskIdAndRound(db_rows, row.task_id, 1)
           found == {e \in existing : e.repo_url # NoUrl}
       IN  IF row.round = 2 /\ found # {}
           THEN \E e \in found :
                  db_rows' = (db_rows \ {row}) \cup
                      {[row EXCEPT !.status = "processing",
                                   !.dispatched_to = "process_round2_task",
                                   !.existing_repo = e.repo_url]}
           ELSE db_rows' = (db_rows \ {row}) \cup
                      {[row EXCEPT !.status = "processing",
                                   !.dispatched_to = "process_task"]}
    /\ UNCHANGED http_response
    /\ UNCHANGED notReqVars

\* routes.py:159-168 -- the orchestrator returned: repo_url of the deployment is
\* stored (160-165; the repository of process_task is the task's own,
\* orchestrator.py:395-408, that of process_round2_task the existing one, 368-372)
\* and the status becomes "completed" (168)
BackgroundCompletes(row) ==
    /\ row \in db_rows
    /\ row.status = "processing"
    /\ db_rows' = (db_rows \ {row}) \cup
           {[row EXCEPT !.status = "completed",
                        !.repo_url = IF row.dispatched_to = "process_round2_task"
                                     THEN row.existing_repo
                                     ELSE RepoUrl(row.task_id)]}
    /\ UNCHANGED http_response
    /\ UNCHANGED notReqVars

\* routes.py:172-179 -- the orchestrator raised: status "failed" (176)
BackgroundFails(row) ==
    /\ row \in db_rows
    /\ row.status = "processing"
    /\ db_rows' = (db_rows \ {row}) \cup {[row EXCEPT !.status = "failed"]}
    /\ UNCHANGED http_response
    /\ UNCHANGED notReqVars

NextRequest ==
    \/ \E task_id \in TaskIds, round \in Rounds, nonce \in Nonces :
         RequestTask(task_id, round, nonce)
    \/ \E row \in db_rows : BackgroundDispatch(row)
    \/ \E row \in db_rows : BackgroundCompletes(row)
    \/ \E row \in db_rows : BackgroundFails(row)

NextRetry ==
    \/ RetryAttemptSucceeds
    \/ RetryAttemptFailsLast
    \/ RetryAttemptFailsSleep
    \/ RetrySleepReturns
    \/ RetryLoopExhausted

InitRetry == RetryInit /\ LLMIdle /\ PipeIdle /\ EvalIdle /\ ReqIdle

SpecRetry == InitRetry /\ [][NextRetry]_vars

InitLLM == LLMInit /\ RetryIdle /\ PipeIdle /\ EvalIdle /\ ReqIdle

SpecLLM == InitLLM /\ [][NextLLM]_vars

InitInterleave == LLMInitObserved /\ RetryIdle /\ PipeIdle /\ EvalIdle /\ ReqIdle

SpecInterleave == InitInterleave /\ [][NextLLM]_vars

\* every awaited provider call ends (it returns or raises), and a caller whose
\* call has ended goes on
FairLLM ==
    \A t \in Tasks : /\ SF_vars(LLMProviderSucceeds(t) \/ LLMProviderFailsNext(t)
                                \/ LLMProviderFailsAll(t))
                     /\ WF_vars(LLMCallerContinues(t))

SpecLLMFair == InitLLM /\ [][NextLLM]_vars /\ FairLLM

InitPipeline == PipeInit /\ RetryIdle /\ LLMIdle /\ EvalIdle /\ ReqIdle

SpecPipeline == InitPipeline /\ [][NextPipeline]_vars

InitEval == EvalInit /\ RetryIdle /\ LLMIdle /\ PipeIdle /\ ReqIdle

SpecEval == InitEval /\ [][NextEval]_vars

InitCheck == CheckInit /\ RetryIdle /\ LLMIdle /\ PipeIdle /\ ReqIdle

SpecCheck == InitCheck /\ [][NextEval]_vars

InitRequest == ReqInit /\ RetryIdle /\ LLMIdle /\ PipeIdle /\ EvalIdle

SpecRequest == InitRequest /\ [][NextRequest]_vars

(***************************************************************************)
(* Claims about the backoff retrier (properties of SpecRetry).             *)
(***************************************************************************)
RetryDone == retry_pc = "done"

\* C8: with max_attempts >= 1, retry_with_backoff invokes the operation exactly
\* min(f, max_attempts) times, f being the index of the first successful
\* invocation; a success is returned at once with no further invocation, and
\* the operation is never invoked more than max_attempts times.
C8_InvocationCount ==
    /\ invocations <= max_attempts
    /\ (RetryDone /\ max_attempts >= 1) =>
          /\ invocations = Min(first_success, max_attempts)
          /\ first_success <= max_attempts =>
                retry_outcome = <<"return", <<"ok", first_success>>>>
    /\ retry_outcome[1] = "return" => invocations = first_success

\* the operation failed twice and succeeded on its third and last allowed invocation
C8_Witness ==
    /\ RetryDone
    /\ max_attempts = 3
    /\ first_success = 3
    /\ invocations = 3
    /\ retry_outcome = <<"return", <<"ok", 3>>>>

\* C9: retry_with_backoff sleeps exactly once after each failed attempt that is
\* not the last allowed one, the i-th sleep lasting
\* initial_delay * backoff_factor^(i-1) capped at max_delay; no sleep follows
\* the final failed attempt or a success.
C9_SleepSchedule ==
    /\ \A i \in 1..Len(sleeps) :
          sleeps[i] = Min(initial_delay * Pow(backoff_factor, i - 1), max_delay)
    /\ (RetryDone /\ max_attempts >= 1) =>
          Len(sleeps) = Min(first_success - 1, max_attempts - 1)

\* C10: when all max_attempts invocations fail, retry_with_backoff raises the
\* failure of the last invocation; it never returns normally.
C10_TerminalFailurePropagates ==
    (RetryDone /\ first_success > max_attempts) =>
        /\ retry_outcome[1] = "raise"
        /\ max_attempts >= 1 => retry_outcome = <<"raise", <<"err", max_attempts>>>>

\* three invocations, all failed, two sleeps, the third failure is raised
C10_Witness ==
    /\ RetryDone
    /\ max_attempts = 3
    /\ first_success > 3
    /\ invocations = 3
    /\ Len(sleeps) = 2
    /\ retry_outcome = <<"raise", <<"err", 3>>>>

(***************************************************************************)
(* Claims about the LLM access layer (properties of SpecLLM).              *)
(***************************************************************************)
\* the providers c, c+1, ... (mod n), k of them
CyclicFrom(c, k, n) == [j \in 1..k |-> (c + j - 1) % n]

\* call t has ended and no other caller stepped inside it
EndedAlone(t) == call_pc[t] = "done" /\ ~interleaved[t]

Returned(t) == llm_outcome[t][1] = "return"

RaisedAllFailed(t) ==
    /\ llm_outcome[t][1] = "raise"
    /\ llm_outcome[t][2][1] = "AllFailed"

\* C3: a non-interleaved generate_response call on N >= 1 providers with the
\* cursor at c attempts the providers in cyclic order c, c+1, ... (mod N) until
\* the first one succeeds, returns that provider's text and leaves the cursor
\* one position past the succeeding provider.
C3_RotationUntilFirstSuccess ==
    \A t \in Tasks :
        (EndedAlone(t) /\ Returned(t)) =>
            LET k == Len(attempted[t]) IN
            /\ k \in 1..num_providers
            /\ attempted[t] = CyclicFrom(start_index[t], k, num_providers)
            /\ failures[t] = SubSeq(attempted[t], 1, k - 1)
            /\ llm_outcome[t] = <<"return", <<"text", attempted[t][k]>>>>
            /\ end_index[t] = (attempted[t][k] + 1) % num_providers

\* providers [A, B, C], cursor 0, A and B fail, C succeeds: A, B, C are tried,
\* C's text is returned and the cursor ends at 0
C3_Witness ==
    \E t \in Tasks :
        /\ EndedAlone(t)
        /\ num_providers = 3
        /\ start_index[t] = 0
        /\ attempted[t] = <<0, 1, 2>>
        /\ failures[t] = <<0, 1>>
        /\ llm_outcome[t] = <<"return", <<"text", 2>>>>
        /\ end_index[t] = 0

\* C4: if every provider fails during a non-interleaved generate_response call,
\* the call raises the aggregate error embedding the error of the last provider
\* attempted, after attempting each of the N providers exactly once.
C4_AllFailAggregateError ==
    \A t \in Tasks :
        (EndedAlone(t) /\ ~Returned(t) /\ num_providers >= 1) =>
            /\ Len(attempted[t]) = num_providers
            /\ \A p \in 0..(num_providers - 1) :
                  Cardinality({j \in 1..Len(attempted[t]) : attempted[t][j] = p}) = 1
            /\ failures[t] = attempted[t]
            /\ llm_outcome[t] =
                  <<"raise", AllFailedError(<<"err", attempted[t][num_providers]>>)>>

\* three providers, the call starts at provider 1 and all three fail in turn
C4_Witness ==
    \E t \in Tasks :
        /\ EndedAlone(t)
        /\ num_providers = 3
        /\ attempted[t] = <<1, 2, 0>>
        /\ llm_outcome[t] = <<"raise", AllFailedError(<<"err", 0>>)>>

\* C5: every provider attempt consumes one rotation step: after a
\* non-interleaved call that made k attempts from cursor c the cursor is
\* (c + k) mod N, so a call in which all N providers fail leaves the cursor
\* where it was.
C5_CursorAdvancesPerAttempt ==
    \A t \in Tasks :
        (EndedAlone(t) /\ num_providers >= 1) =>
            /\ end_index[t] = (start_index[t] + Len(attempted[t])) % num_providers
            /\ RaisedAllFailed(t) => end_index[t] = start_index[t]

\* a call from cursor 2 on three providers: one failure, one success, cursor at 1
C5_Witness ==
    \E t \in Tasks :
        /\ EndedAlone(t)
        /\ num_providers = 3
        /\ start_index[t] = 2
        /\ Len(attempted[t]) = 2
        /\ Returned(t)
        /\ end_index[t] = 1

\* C6: with an empty provider list the service is constructed, and every
\* generate_response call fails at once with the no-provider error, attempting
\* no provider and leaving the cursor unchanged.
C6_NoProviderFailsImmediately ==
    num_providers = 0 =>
        /\ current_provider_index = 0
        /\ \A t \in Tasks :
              /\ call_pc[t] # "awaiting"
              /\ attempted[t] = <<>>
              /\ call_pc[t] = "done" =>
                    /\ llm_outcome[t] = <<"raise", <<"NoProviders">>>>
                    /\ end_index[t] = start_index[t]

\* a call on a service without providers has failed
C6_Witness ==
    /\ num_providers = 0
    /\ \E t \in Tasks :
          /\ call_pc[t] = "done"
          /\ llm_outcome[t] = <<"raise", <<"NoProviders">>>>

\* C7: the cursor of the shared LLMService is never accessed by two
\* concurrently running tasks without mutual exclusion: at most one
\* generate_response call is between its read of the cursor (llm.py:81) and
\* its update of it (llm.py:93, 103) at any time.
C7_CursorAccessSerialized ==
    \A t, u \in Tasks :
        (call_pc[t] = "awaiting" /\ call_pc[u] = "awaiting") => t = u

(***************************************************************************)
(* Claims about the phase pipeline (properties of SpecPipeline).           *)
(***************************************************************************)
IsPrefix(s, t) == Len(s) <= Len(t) /\ s = SubSeq(t, 1, Len(s))

Range(s) == {s[i] : i \in 1..Len(s)}

\* a phase of process_task raised and its exception is propagating
PhaseRaised == pending_exc[1] = "err" /\ pending_exc[2] \in Range(PhaseOrder)

\* C1: in every run of process_task the phases run in the order Think, Plan,
\* Act, Review, each at most once and never going back; if a phase raises, no
\* later phase starts and process_task re-raises that failure to its caller.
C1_PhasesInOrderFailurePropagates ==
    /\ IsPrefix(phase_log, PhaseOrder)
    /\ IsPrefix(phases_done, phase_log)
    /\ Len(phase_log) <= Len(phases_done) + 1
    /\ phase_log # <<>> => run_path = "process_task"
    /\ run_outcome[1] = "return" /\ run_path = "process_task" =>
          phases_done = PhaseOrder
    /\ PhaseRaised =>
          /\ phase_log[Len(phase_log)] = pending_exc[2]
          /\ pending_exc[2] \notin Range(phases_done)
          /\ pipe_pc \in {"handler", "done"} => run_outcome = <<"raise", pending_exc>>
          /\ task_status = "failed" => task_error \in {None, pending_exc}

\* the deployment failed in Act: Review never started and process_task raised
\* the deployment failure
C1_Witness ==
    /\ pipe_pc = "done"
    /\ phase_log = <<"Think", "Plan", "Act">>
    /\ phases_done = <<"Think", "Plan">>
    /\ run_outcome = <<"raise", Err("Act", "deploy_application")>>
    /\ task_status = "failed"

\* the operations that generate, deploy or update the artifact
ArtifactOps == {"generate_application", "update_application",
                "deploy_application", "update_repository"}

\* C2: Act cannot run without a Plan: on every processing path no artifact
\* generation, repository deployment or repository update starts unless the
\* Plan phase has completed for the task.
C2_ActRequiresPlan ==
    (Range(ops_log) \cap ArtifactOps # {}) => "Plan" \in Range(phases_done)

(***************************************************************************)
(* Claims about the evaluation engine (properties of SpecEval, and of      *)
(* SpecCheck where a single check string is concerned).                    *)
(***************************************************************************)
\* evaluate_page has returned its result
EvalReturned == eval_pc = "returned" \/ scope_exit = "return"

\* equality and order of fractions with positive denominators
RatEq(a, b) == a[1] * b[2] = b[1] * a[2]
RatLeq(a, b) == a[1] * b[2] <= b[1] * a[2]

\* C11: in every result returned by evaluate_page, score is
\* len(checks_passed) / len(checks) when checks is non-empty and 0.0 when it
\* is empty, so that 0 <= score <= 1.
C11_ScoreIsPassedRatio ==
    EvalReturned =>
        /\ results.score[2] > 0
        /\ Len(checks) > 0 =>
              RatEq(results.score, <<Len(results.checks_passed), Len(checks)>>)
        /\ Len(checks) = 0 => RatEq(results.score, <<0, 1>>)
        /\ RatLeq(<<0, 1>>, results.score)
        /\ RatLeq(results.score, <<1, 1>>)

\* a result with one of two checks passed: score 1/2
C11_Witness ==
    /\ EvalReturned
    /\ Len(checks) = 2
    /\ Len(results.checks_passed) = 1
    /\ results.score = <<1, 2>>

\* the navigation of the claim failed: page.goto raised (a timeout is an
\* exception), gave no response, or a response whose status is an error
\* status
NavigationFailed ==
    \/ nav_result = <<"raise">>
    \/ nav_result = <<"no_response">>
    \/ nav_result[1] = "response" /\ nav_result[2] \notin 200..299

NavigationErrors == {"Failed to load page", "Page returned status"}

\* C12: when the navigation fails, the result returned has checks_passed and
\* checks_failed empty, score 0, exactly one entry in errors, which is about
\* the navigation, and no check was executed.
C12_NavigationFailureAborts ==
    (EvalReturned /\ NavigationFailed) =>
        /\ results.checks_passed = <<>>
        /\ results.checks_failed = <<>>
        /\ RatEq(results.score, <<0, 1>>)
        /\ Len(results.errors) = 1
        /\ results.errors[1][1] \in NavigationErrors
        /\ exec_log = <<>>

\* a call with checks to run whose navigation got a 404
C12_Witness ==
    /\ EvalReturned
    /\ nav_result = <<"response", 404>>
    /\ Len(checks) > 0
    /\ Len(results.errors) = 1

\* the call ended at the navigation, before any check
AbortedAtNavigation ==
    \E k \in DOMAIN results.errors : results.errors[k][1] \in NavigationErrors

\* C13: evaluate_page aborts before running any check exactly when the
\* navigation raises or the response status is not 2xx: for every 2xx status
\* it goes on to the checks, for every other status it aborts with zero
\* passed checks.
C13_AbortsExactlyOnNon2xx ==
    (EvalReturned /\ nav_result # <<"none">>) =>
        /\ AbortedAtNavigation <=> NavigationFailed
        /\ NavigationFailed => results.checks_passed = <<>>

\* the indices of the checks listed in checks_passed
PassedIndices == {results.checks_passed[j] : j \in DOMAIN results.checks_passed}

\* the entries of checks_failed for the check at index i
FailedEntries(i) ==
    {results.checks_failed[k] : k \in {j \in DOMAIN results.checks_failed :
                                        results.checks_failed[j][1] = i}}

\* C14: a failing check never aborts the evaluation.  A 'js:' check whose
\* expression gives a falsy value is a failed check whose reason holds that
\* value, a check whose evaluation raises is a failed check whose reason
\* holds the exception message, errors stays empty, and once the loop is
\* over every check has been executed.
C14_CheckFailureIsolated ==
    /\ \A k \in DOMAIN exec_log :
          LET i == exec_log[k][1]
              ans == exec_log[k][2]
          IN  /\ ("js:" \in checks[i] /\ ans \in {"false", "0"}) =>
                    FailedEntries(i) = {<<i, <<"JS expression returned", ans>>>>}
              /\ ans = "raise" =>
                    /\ FailedEntries(i) # {}
                    /\ \A e \in FailedEntries(i) : e[2][2] = "exc"
              /\ FailedEntries(i) # {} => i \notin PassedIndices
    /\ eval_pc = "checks" => results.errors = <<>>
    /\ (loaded /\ EvalReturned) => Len(exec_log) = Len(checks)

\* the first check raised, the second gave a falsy value, the call returned
C14_Witness ==
    /\ EvalReturned
    /\ Len(exec_log) = 2
    /\ exec_log[1][2] = "raise"
    /\ exec_log[2][2] = "false"
    /\ Len(results.checks_failed) = 2

\* a check string with no 'js:' prefix that holds a '#token'
IsSelectorCheck(check) == "js:" \notin check /\ "#id" \in check

\* C15: a check that does not start with 'js:' and holds a '#token' passes
\* exactly when the page has an element with that id and fails with 'not
\* found' otherwise, whatever other words it holds (the calls on the page
\* returning normally).
C15_SelectorCheckDecidedByElement ==
    \A k \in DOMAIN exec_log :
        LET i == exec_log[k][1]
        IN  (IsSelectorCheck(checks[i]) /\ exec_log[k][2] = "ok") =>
                IF page_facts.element
                THEN i \in PassedIndices /\ FailedEntries(i) = {}
                ELSE i \notin PassedIndices
                     /\ FailedEntries(i) = {<<i, <<"Element not found">>>>}

\* a check string that no branch of _run_check and _run_text_check other
\* than the last one takes
IsGenericCheck(check) ==
    /\ check \cap {"js:", "readme", "title", "#id", "bootstrap"} = {}
    /\ ~({"license", "mit"} \subseteq check)

\* C16 as stated: a check with no 'js:' prefix that matches none of the
\* heuristics is always recorded as passed once the page has loaded.
C16_GenericCheckAlwaysPasses ==
    \A k \in DOMAIN exec_log :
        IsGenericCheck(checks[exec_log[k][1]]) =>
            /\ exec_log[k][1] \in PassedIndices
            /\ FailedEntries(exec_log[k][1]) = {}

\* C16: a check with no 'js:' prefix that matches none of the heuristics is
\* recorded as passed once the page has loaded, unless a call on the page
\* raises while the check runs: then it is a failed check whose reason holds
\* the exception message.
C16_GenericCheckPassesUnlessRaise ==
    \A k \in DOMAIN exec_log :
        LET i == exec_log[k][1]
        IN  IsGenericCheck(checks[i]) =>
                IF exec_log[k][2] = "raise"
                THEN /\ i \notin PassedIndices
                     /\ FailedEntries(i) = {<<i, <<"Text check error", "exc">>>>}
                ELSE /\ i \in PassedIndices
                     /\ FailedEntries(i) = {}

\* a check that holds only the word 'license' ran on a page that answered
C16_Witness ==
    /\ checks = <<{"license"}>>
    /\ exec_log = <<<<1, "ok">>>>
    /\ results.checks_passed = <<1>>

\* C18: the checks are executed one at a time in input order, each exactly
\* once, and checks_passed and checks_failed each list their checks in the
\* order of the input.
C18_ChecksInInputOrder ==
    /\ Len(exec_log) = check_i - 1
    /\ \A k \in DOMAIN exec_log : exec_log[k][1] = k
    /\ \A j, k \in DOMAIN results.checks_passed :
          j < k => results.checks_passed[j] < results.checks_passed[k]
    /\ \A j, k \in DOMAIN results.checks_failed :
          j < k => results.checks_failed[j][1] < results.checks_failed[k][1]
    /\ Len(results.checks_passed) + Len(results.checks_failed) = Len(exec_log)
    /\ (loaded /\ EvalReturned) => Len(exec_log) = Len(checks)

\* two checks that both passed, listed in input order
C18_Witness ==
    /\ EvalReturned
    /\ Len(checks) = 2
    /\ results.checks_passed = <<1, 2>>

\* the terminal states of the claimed state machine
Aborted ==
    /\ results.errors # <<>>
    /\ exec_log = <<>>
    /\ RatEq(results.score, <<0, 1>>)

Scored ==
    /\ results.errors = <<>>
    /\ Len(exec_log) = Len(checks)
    /\ Len(results.checks_passed) + Len(results.checks_failed) = results.total_checks

\* C17: every evaluate_page call goes Navigating -> (Aborted | Loaded ->
\* RunningChecks -> Scored): it returns in exactly one of Aborted (errors
\* non-empty, no check executed, score 0) and Scored (errors empty, every
\* check executed, passed + failed = total_checks), and a check is executed
\* only after the page reached Loaded.
C17_EndsAbortedOrScored ==
    /\ exec_log # <<>> => loaded
    /\ EvalReturned => (Aborted /\ ~Scored) \/ (Scored /\ ~Aborted)

\* the scope was entered (__aenter__ returned) and its exit has completed
ScopeExited == eval_pc = "exited" /\ scope_exit # "none"

\* C19: once the scope has been entered, on every exit path (the body
\* returns, raises, or is cancelled) the browser has been closed when the
\* exit of the scope completes.
C19_BrowserClosedOnScopeExit ==
    ScopeExited => browser = "closed"

\* C20: every page opened by evaluate_page has been closed when the call
\* returns, on every return path, and the browser is still open then.
C20_PageClosedOnReturn ==
    /\ (EvalReturned /\ page # "none") => page = "closed"
    /\ eval_pc = "returned" => browser = "open"

(***************************************************************************)
(* Claims about the workspace, the Review report, the round-2 dispatch,    *)
(* the callback and the task status (properties of SpecPipeline).          *)
(***************************************************************************)
Count(q, x) == Cardinality({i \in DOMAIN q : q[i] = x})

\* the run is inside the try block of _act_phase or process_round2_task
InActStep ==
    pipe_pc \in {"act_generate", "act_explain", "act_deploy", "act_callback",
                 "act_readme", "act_cleanup", "r2_update", "r2_explain", "r2_repo",
                 "r2_callback", "r2_cleanup"}

\* the Act step (fresh or round-2 update) has started and has ended
ActStepEnded == "create_workspace" \in Range(ops_log) /\ ~InActStep

\* C21: cleanup_workspace is invoked exactly once per task run, when the Act
\* step (fresh or round-2 update) returns normally and when it raises at any
\* point after the workspace path was allocated; it is the last operation of
\* the step.
C21_CleanupExactlyOnce ==
    /\ Count(ops_log, "cleanup_workspace") <= 1
    /\ ActStepEnded => Count(ops_log, "cleanup_workspace") = 1
    /\ (InActStep /\ pipe_pc \notin {"act_cleanup", "r2_cleanup"}) =>
          Count(ops_log, "cleanup_workspace") = 0

\* the deployment raised in Act and the run is over: one cleanup
C21_Witness ==
    /\ pipe_pc = "done"
    /\ pending_exc = Err("Act", "deploy_application")
    /\ Count(ops_log, "cleanup_workspace") = 1

C23_EvaluatorFailureGivesNeutralReport ==
    /\ PhaseRaised => pending_exc[2] # "Review"
    /\ evaluator_outcome[1] = "raise" =>
          /\ run_outcome[1] = "return"
          /\ run_outcome[2].status = "completed"
          /\ run_outcome[2].quality_score = <<1, 2>>
          /\ run_outcome[2].checks_passed = <<>>
          /\ run_outcome[2].checks_failed = SortedSeq(TaskChecks)
          /\ run_outcome[2].recommendations =
                <<<<"Evaluation error", evaluator_outcome[2]>>>>
          /\ phases_done = PhaseOrder

\* the browser could not be launched and the task still completed
C23_Witness ==
    /\ evaluator_outcome = <<"raise", "chromium.launch">>
    /\ pipe_pc = "done"
    /\ task_status = "completed"

\* an exception raised before an orchestrator entry point was chosen
RaisedBeforePipeline ==
    /\ pending_exc # None
    /\ pending_exc[2] = "Background"
    /\ pending_exc[3] \in {"update_task_status", "get_task_by_task_id_and_round"}

\* C24: a round-2 task for which no round-1 record with a repository URL can
\* be resolved is processed by process_task (Think, Plan, Act with a fresh
\* deployment, Review) and never by the update path.
C24_Round2WithoutRecordRunsFresh ==
    (task_round = 2 /\ ~prior_repo_url) =>
        /\ run_path \in {"none", "process_task"}
        /\ Range(ops_log) \cap {"update_application"} = {}
        /\ existing_files = "none"
        /\ (run_path = "none" /\ pipe_pc \notin {"queued", "dispatch"}) =>
              RaisedBeforePipeline
        /\ run_outcome[1] = "return" =>
              /\ phases_done = PhaseOrder
              /\ "deploy_application" \in Range(ops_log)

\* a round-2 task without a round-1 record that went through the four phases
C24_Witness ==
    /\ task_round = 2
    /\ ~prior_repo_url
    /\ run_path = "process_task"
    /\ phases_done = PhaseOrder
    /\ task_status = "completed"

\* C25: round-2 processing never passes empty or placeholder file content to
\* the update generator as the prior artifact: whenever the update path runs,
\* the existing files it is given are the deployed files of the prior round;
\* otherwise the task is processed as a fresh task.
C25_UpdateGetsDeployedFiles ==
    /\ "update_application" \in Range(ops_log) => existing_files = "deployed_files"
    /\ run_path = "process_round2_task" => (task_round = 2 /\ prior_repo_url)

\* the only step that failed, if any, is the delivery of the callback
OnlyCallbackFailed ==
    /\ callback_result = "failed"
    /\ IF pending_exc = None THEN TRUE ELSE pending_exc[3] = "callback"

\* C26: a callback delivery failure never fails a task: when every attempt to
\* deliver the callback fails while all other steps succeed, the Act step
\* still returns its deployment result, the remaining phases run and the
\* terminal status of the task is completed.
C26_CallbackFailureNotFatal ==
    /\ callback_result = "failed" =>
          (pending_exc = None \/ pending_exc[3] # "callback")
    /\ (OnlyCallbackFailed /\ pipe_pc = "done") =>
          /\ task_status = "completed"
          /\ run_outcome[1] = "return"
          /\ deployment_recorded
          /\ run_path = "process_task" =>
                (phases_done = PhaseOrder /\ "evaluate_page" \in Range(ops_log))
          /\ run_path = "process_round2_task" =>
                run_outcome = <<"return", "update_result">>

\* the callback could not be delivered and the fresh task completed
C26_Witness ==
    /\ callback_result = "failed"
    /\ run_path = "process_task"
    /\ pipe_pc = "done"
    /\ task_status = "completed"
    /\ phases_done = PhaseOrder

\* the deployment collaborator failed to create or to update the artifact
DeploymentFailed ==
    pending_exc \in {Err("Act", "deploy_application"), Err("Act", "update_repository"),
                     Err("Round2", "update_repository")}

\* C27: a deployment failure is fatal: when the deployment collaborator fails
\* to create or to update the artifact, the failure propagates out of the Act
\* step, no completion callback is sent, the Review phase does not run and the
\* terminal status of the task is failed with the error message recorded
\* (a failure of the two database updates of the error handler itself is not
\* held against the statement).
C27_DeploymentFailureFatal ==
    DeploymentFailed =>
        /\ "callback" \notin Range(ops_log)
        /\ "Review" \notin Range(phase_log)
        /\ "Act" \notin Range(phases_done)
        /\ run_outcome[1] # "return"
        /\ pipe_pc = "done" =>
              \/ task_status = "failed" /\ task_error = pending_exc
              \/ task_error = None

\* C28: whenever the LLM layer returns some text, Think and Plan never fail
\* because of its content: a response that is not the requested analysis or
\* plan object is replaced by the fixed fallback, so each phase always yields
\* a structured record.
C28_ThinkPlanYieldStructuredRecord ==
    /\ "Think" \in Range(phases_done) => analysis \in {"object", "fallback"}
    /\ "Plan" \in Range(phases_done) => plan \in {"object", "fallback"}
    /\ PhaseRaised /\ pending_exc[2] \in {"Think", "Plan"} =>
          pending_exc[3] = "generate_response"

\* a step of the pipeline (anything after the first status update) has started
PipelineStepStarted ==
    \/ run_path # "none"
    \/ Len(ops_log) > 0
    \/ Len(phase_log) > 0

C30_InterleavedCallTriesEachProviderOnce ==
    observe_tried => \A t \in Tasks :
        /\ call_pc[t] = "awaiting" => Cardinality(tried[t]) = loop_i[t] + 1
        /\ (call_pc[t] = "done" /\ llm_outcome[t][1] = "raise"
                /\ llm_outcome[t][2][1] = "AllFailed") =>
              tried[t] = 0..(num_providers - 1)

(***************************************************************************)
(* Termination of generate_response (property of SpecLLMFair).             *)
(***************************************************************************)
\* the number of provider attempts the call of t has made so far
Attempts(t) == IF call_pc[t] = "idle" \/ num_providers = 0 THEN 0 ELSE loop_i[t] + 1

\* C31: every generate_response call terminates, returning a response or
\* raising, after at most N provider attempts (N the number of configured
\* providers), provided each provider attempt terminates; this holds also
\* when other calls run concurrently on the same instance.
C31_CallTerminatesWithinNAttempts ==
    /\ [](\A t \in Tasks : Attempts(t) <= num_providers)
    /\ \A t \in Tasks : (call_pc[t] = "awaiting") ~> (call_pc[t] = "done")

\* a call that ended by raising after N >= 2 attempts while another call is
\* awaiting its second provider on the same instance
C31_Witness ==
    \E t, u \in Tasks :
        /\ call_pc[t] = "done"
        /\ num_providers >= 2
        /\ loop_i[t] + 1 = num_providers
        /\ llm_outcome[t][1] = "raise"
        /\ call_pc[u] = "awaiting"
        /\ loop_i[u] = 1

(***************************************************************************)
(* Claims about the callback, the repository and the terminal status       *)
(* (properties of SpecPipeline).                                           *)
(***************************************************************************)
\* the deployment (fresh or round-2 update) succeeded and its callback step
\* is over
CallbackStepOver ==
    /\ deployment_result # NoDeployment
    /\ pipe_pc \notin {"act_callback", "r2_callback"}

\* C32: for each successful deployment (fresh or round-2 update) with an
\* evaluation URL the completion callback is attempted at least once and at
\* most 5 times, no POST is made after the first one that succeeds, and the
\* payload carries the task id, round, nonce, repo_url, commit_sha and
\* pages_url of that deployment; without an evaluation URL no POST is made.
C32_CallbackPostedOneToFiveTimes ==
    /\ ~evaluation_url => (callback_log = <<>> /\ callback_payload = <<"none">>)
    /\ callback_log # <<>> => CallbackStepOver
    /\ (CallbackStepOver /\ evaluation_url) =>
          /\ Len(callback_log) \in 1..CallbackMaxAttempts
          /\ \A i \in 1..(Len(callback_log) - 1) : callback_log[i] = "err"
          /\ Len(callback_log) < CallbackMaxAttempts =>
                callback_log[Len(callback_log)] = "ok"
          /\ callback_result =
                (IF callback_log[Len(callback_log)] = "ok" THEN "delivered" ELSE "failed")
          /\ callback_payload[1] = "payload"
          /\ callback_payload[2].task = "task_id"
          /\ callback_payload[2].round = task_round
          /\ callback_payload[2].nonce = "nonce"
          /\ callback_payload[2].repo_url = deployment_result.repo_url
          /\ callback_payload[2].commit_sha = deployment_result.commit_sha
          /\ callback_payload[2].pages_url = deployment_result.pages_url

\* the callback of a round-2 update was delivered by the third POST
C32_Witness ==
    /\ run_path = "process_round2_task"
    /\ callback_log = <<"err", "err", "ok">>
    /\ callback_result = "delivered"
    /\ pipe_pc = "done"

\* the last position of x in q, 0 when it is not there
LastIndex(q, x) ==
    IF x \in Range(q) THEN CHOOSE i \in DOMAIN q :
                              q[i] = x /\ \A j \in DOMAIN q : q[j] = x => j <= i
    ELSE 0

\* C34: the completion callback of a task run is sent only after all the
\* repository writes of that run have finished, so the commit_sha reported in
\* the callback is the head revision of the repository when the run ends
\* (fresh deployment and round-2 update alike).
C34_CallbackAfterAllRepositoryWrites ==
    /\ "callback" \in Range(ops_log) =>
          /\ LastIndex(ops_log, "deploy_application") < LastIndex(ops_log, "callback")
          /\ LastIndex(ops_log, "update_repository") < LastIndex(ops_log, "callback")
    /\ (pipe_pc = "done" /\ callback_payload[1] = "payload") =>
          callback_payload[2].commit_sha = repo_head

\* C35: no task run that delivered its completion callback ends with terminal
\* status failed: once the callback POST has succeeded the terminal status of
\* the run is completed (a failure of a database update of
\* process_autonomous_task is not held against the statement).
C35_DeliveredCallbackImpliesCompleted ==
    (/\ callback_result = "delivered"
     /\ pipe_pc = "done"
     /\ task_status \in {"completed", "failed"}
     /\ IF pending_exc = None THEN TRUE ELSE pending_exc[2] # "Background") =>
        task_status = "completed"

\* C36: every task run that reaches terminal status completed has executed
\* the Review phase against its deployed URL: its result carries a quality
\* score and the passed and failed checks of the task.
C36_CompletedImpliesReviewed ==
    task_status = "completed" =>
        /\ "Review" \in Range(phases_done)
        /\ evaluator_outcome # <<"none">>
        /\ run_outcome[1] = "return"
        /\ run_outcome[2] # "update_result"

\* C38: a failure inside the workspace cleanup never changes the outcome of
\* the Act step: when the body of the step completed its deployment result is
\* still returned, and when the body raised, that exception, not an error of
\* the cleanup, is what propagates to the caller.
C38_CleanupFailureKeepsActOutcome ==
    (cleanup_failed /\ ~InActStep) =>
        /\ pending_exc # Err("Act", "cleanup_workspace")
        /\ (run_path = "process_task" /\ repo_head = 2) =>
              (pending_exc = None \/ pending_exc[2] = "Background")
        /\ (run_path = "process_task" /\ repo_head = 2) => "Act" \in Range(phases_done)
        /\ (run_path = "process_round2_task" /\ callback_result # "none") =>
              run_outcome = <<"return", "update_result">>
        /\ (pending_exc # None /\ pending_exc[2] \in {"Act", "Round2"}) =>
              /\ pending_exc[3] = ops_log[LastIndex(ops_log, "cleanup_workspace") - 1]
              /\ pipe_pc \notin {"pt_except"} => run_outcome = <<"raise", pending_exc>>

\* the removal of the workspace failed after the deployment had raised, and
\* the error recorded for the task is the one of the deployment
C38_Witness ==
    /\ cleanup_failed
    /\ pipe_pc = "done"
    /\ pending_exc = Err("Act", "deploy_application")
    /\ task_error = Err("Act", "deploy_application")

(***************************************************************************)
(* The cap of the delays (property of SpecRetry).                          *)
(***************************************************************************)
\* C37: no sleep performed by retry_with_backoff is longer than max_delay,
\* for every combination of initial_delay, max_delay and backoff_factor >= 1,
\* initial_delay greater than max_delay included.
C37_NoSleepLongerThanMaxDelay ==
    \A i \in 1..Len(sleeps) : sleeps[i] <= max_delay

(***************************************************************************)
(* The Playwright driver (property of SpecEval).                           *)
(***************************************************************************)
\* C39: once the Playwright driver has been started by the scope entry of the
\* evaluator it is always stopped again, also when the browser launch fails
\* during scope entry and when closing the browser raises during scope exit:
\* no driver started by an evaluator outlives its Review phase.
C39_StartedDriverIsStopped ==
    (eval_pc = "exited" /\ playwright # "none"
        /\ scope_outcome \in {<<"return">>, <<"raise", "chromium.launch">>,
                              <<"raise", "browser.close">>,
                              <<"raise", "CancelledError">>}) =>
        playwright = "stopped"

(***************************************************************************)
(* Claims about POST /request (properties of SpecRequest).                 *)
(***************************************************************************)
\* the round-1 rows that completed with a repository
CompletedRound1(rows, task_id) ==
    {r \in rows : r.task_id = task_id /\ r.round = 1 /\ r.status = "completed"
                  /\ r.repo_url # NoUrl}

\* C33: a round-2 request that carries the task identifier of a round-1 task
\* that completed before, with a nonce no row has, is answered "accepted" and
\* gets a row of its own unless the database itself is out of order, and the
\* background task of a round-2 row whose task has a completed round-1 row is
\* dispatched to process_round2_task with the repository URL of that row
C33_Round2RequestAcceptedAndDispatched ==
    /\ [][\A r1 \in db_rows :
            (/\ http_response' # http_response
             /\ http_response'.round = 2
             /\ http_response'.error # "OperationalError"
             /\ r1 \in CompletedRound1(db_rows, http_response'.task)
             /\ \A r \in db_rows : r.nonce # http_response'.nonce)
            => /\ http_response'.status = "accepted"
               /\ \E r2 \in db_rows' : /\ r2.task_id = r1.task_id
                                       /\ r2.round = 2
                                       /\ r2.nonce = http_response'.nonce]_vars
    /\ [](\A r2 \in db_rows :
            (/\ r2.round = 2
             /\ r2.dispatched_to # "none"
             /\ CompletedRound1(db_rows, r2.task_id) # {})
            => /\ r2.dispatched_to = "process_round2_task"
               /\ r2.existing_repo \in
                    {r1.repo_url : r1 \in CompletedRound1(db_rows, r2.task_id)})

=============================================================================
